---- MODULE Spec2Model ----
(***************************************************************************)
(* Model of the auto-battler game state kept by useGame() (the second,     *)
(* resolver-based revision in src/src/composables/useGame.ts, lines        *)
(* 526-1464): placement, battle ticks with the matching-based movement     *)
(* resolver, attacks with cooldown, single-cell move animations that are   *)
(* applied by a later animation frame, round end and reset.                *)
(*                                                                         *)
(* Time is kept relative: every unit carries the milliseconds elapsed      *)
(* since its lastAttackAt (capped at its cooldown, Never when lastAttackAt *)
(* is still 0); consecutive ticks are TickInterval ms apart.               *)
(***************************************************************************)
EXTENDS Integers, Sequences, FiniteSets

\* ------------------------------------------------------------------ constants
BOARD_WIDTH == 5
BOARD_HEIGHT == 8
TickInterval == 400
AttackCooldownMs == 1000
SoldierHp == 18
SoldierAtk == 3
SoldierRange == 1
BenchSize == 3
PlacementMaxRow == 3
ZoneBRows == 4

MaxRounds == 3

\* ------------------------------------------------------------------ bounds
\* ticks of one battle the model follows
MaxTicks == 24
\* ticks that may fire while a move granted earlier is still being animated
MaxLateTicks == 1
\* rounds played to their end between two resets of the best-of-three
MaxBattles == 1
\* a reset may interrupt a running battle up to this tick
MaxResetTick == 1
\* a placement begins only while the id counter has not passed this value
MaxStartId == 8

\* the placements followed: team A's three drops in order, then the three cells
\* the random auto-placement gives team B
Scenarios ==
  { << <<1, 3>>, <<0, 2>>, <<0, 3>>, <<0, 5>>, <<4, 5>>, <<1, 5>> >>,
    << <<4, 0>>, <<3, 0>>, <<4, 2>>, <<4, 7>>, <<1, 5>>, <<0, 5>> >>,
    << <<0, 3>>, <<3, 0>>, <<2, 1>>, <<4, 4>>, <<3, 7>>, <<0, 4>> >> }

Never == -1
NoId == 0

Cells == (0 .. BOARD_WIDTH - 1) \X (0 .. BOARD_HEIGHT - 1)

\* ------------------------------------------------------------------ helpers
Abs(n) == IF n < 0 THEN -n ELSE n
Min2(a, b) == IF a <= b THEN a ELSE b
Range(s) == {s[i] : i \in DOMAIN s}
Pos(u) == <<u.x, u.y>>

RECURSIVE SeqFilterIdx(_, _, _)
\* the elements of s (from index i on) whose index is in keep, in order
SeqFilterIdx(s, keep, i) ==
  IF i > Len(s) THEN <<>>
  ELSE (IF i \in keep THEN <<s[i]>> ELSE <<>>) \o SeqFilterIdx(s, keep, i + 1)

\* Array.prototype.filter, keep being the indices the predicate accepts
Filter(s, keep) == SeqFilterIdx(s, keep, 1)

\* Array.prototype.find on ids: index of the unit with this id, 0 when absent
IndexOfId(us, uid) ==
  IF \E i \in DOMAIN us : us[i].id = uid
  THEN CHOOSE i \in DOMAIN us : us[i].id = uid /\ \A j \in 1 .. (i - 1) : us[j].id # uid
  ELSE 0

\* Array.prototype.sort is stable: position of s[i] in the sorted array is the
\* number of elements that must precede it; before holds the pairs <<i, j>> of
\* indices for which the comparator puts s[i] ahead of s[j]
StableSort(s, before) ==
  LET rank(i) == Cardinality({j \in DOMAIN s :
                    <<j, i>> \in before \/ (<<i, j>> \notin before /\ j < i)})
  IN [k \in DOMAIN s |-> s[CHOOSE i \in DOMAIN s : rank(i) = k - 1]]

RECURSIVE digits(_)
\* the decimal digits of n, most significant first
digits(n) == IF n < 10 THEN <<n>> ELSE Append(digits(n \div 10), n % 10)

\* id() returns `id_${++idCounter}_${Date.now()}`: up to the first difference two
\* ids read as the counter's digits followed by '_', which sorts after every digit
\* (written 10 here); the timestamp is never reached since counters differ
idKey(n) == Append(digits(n), 10)

RECURSIVE lexLess(_, _, _)
\* s < t on strings, from position i on
lexLess(s, t, i) ==
  IF i > Len(s) \/ i > Len(t) THEN Len(s) < Len(t)
  ELSE IF s[i] # t[i] THEN s[i] < t[i]
  ELSE lexLess(s, t, i + 1)

\* ua < ub on two unit ids, the ids standing for their counter values
idBefore(ua, ub) == lexLess(idKey(ua), idKey(ub), 1)

inBounds(x, y) == x >= 0 /\ x < BOARD_WIDTH /\ y >= 0 /\ y < BOARD_HEIGHT

manhattan(a, b) == Abs(a[1] - b[1]) + Abs(a[2] - b[2])

chebyshev(a, b) ==
  LET dx == Abs(a[1] - b[1])
      dy == Abs(a[2] - b[2])
  IN IF dx >= dy THEN dx ELSE dy

\* the four neighbours in the order the code lists them
neighbors(x, y) ==
  << [x |-> x + 1, y |-> y, axis |-> "x", dir |-> 1],
     [x |-> x - 1, y |-> y, axis |-> "x", dir |-> -1],
     [x |-> x, y |-> y + 1, axis |-> "y", dir |-> 1],
     [x |-> x, y |-> y - 1, axis |-> "y", dir |-> -1] >>

isForward(team, axis, dir) ==
  axis = "y" /\ ((team = "A" /\ dir = 1) \/ (team = "B" /\ dir = -1))

\* Array.prototype.indexOf, counted from 0, -1 for a value not in the array
indexOf(arr, v) ==
  IF \E i \in DOMAIN arr : arr[i] = v
  THEN (CHOOSE i \in DOMAIN arr : arr[i] = v /\ \A j \in 1 .. (i - 1) : arr[j] # v) - 1
  ELSE -1

cycle == <<"N", "E", "S", "W">>

rotateBack(facing) == cycle[((indexOf(cycle, facing) + 3) % 4) + 1]

rotateFacing(facing) == cycle[((indexOf(cycle, facing) + 1) % 4) + 1]

createUnit(uid, team, x, y) ==
  [id |-> uid, team |-> team, type |-> "melee", x |-> x, y |-> y,
   hp |-> SoldierHp, maxHp |-> SoldierHp, atk |-> SoldierAtk, range |-> SoldierRange,
   canTaunt |-> FALSE, lockedTargetId |-> NoId, sinceAttack |-> Never,
   anim |-> 0, animToX |-> -1, animToY |-> -1,
   facing |-> IF team = "A" THEN "N" ELSE "S"]

\* ------------------------------------------------------------------ combat queries
\* one range test for every unit type: Manhattan distance against the range
canAttackByRange(unit, target) == manhattan(Pos(unit), Pos(target)) <= unit.range

canAttack(unit, target) ==
  LET dx == Abs(unit.x - target.x)
      dy == Abs(unit.y - target.y)
  IN IF unit.type = "melee" THEN dx <= 1 /\ dy <= 1
     ELSE manhattan(Pos(unit), Pos(target)) <= unit.range

RECURSIVE PickBy(_, _, _, _, _)
\* the same loops replacing on a tie as well: the last best is kept
pickLast(pool, from, i, best, further) ==
  IF i > Len(pool) THEN best
  ELSE LET d == manhattan(from, Pos(pool[i]))
           bd == manhattan(from, Pos(best))
       IN IF (further /\ d >= bd) \/ (~further /\ d <= bd)
          THEN PickBy(pool, from, i + 1, pool[i], further)
          ELSE PickBy(pool, from, i + 1, best, further)

\* the loops of selectTarget: keep the first best, replace on strictly better
PickBy(pool, from, i, best, further) ==
  IF i > Len(pool) THEN best
  ELSE LET d == manhattan(from, Pos(pool[i]))
           bd == manhattan(from, Pos(best))
       IN IF (further /\ d > bd) \/ (~further /\ d < bd)
          THEN PickBy(pool, from, i + 1, pool[i], further)
          ELSE PickBy(pool, from, i + 1, best, further)

\* "taunters.length ? taunters : pool"
tauntPool(taunters, pool) == IF Len(taunters) > 0 THEN taunters ELSE pool

\* the best of a non-empty pool: the furthest for an archer, else the closest
bestOf(unit, pool, from) == PickBy(pool, Pos(unit), from, pool[1], unit.type = "archer").id

\* selectTarget once the enemies and those in range are known
selectAmong(unit, enemies, inRange) ==
  IF Len(enemies) = 0 THEN NoId
  ELSE IF Len(inRange) > 0
  THEN bestOf(unit, tauntPool(Filter(inRange, {i \in DOMAIN inRange : inRange[i].canTaunt}), inRange), 2)
  ELSE IF unit.type = "archer" THEN bestOf(unit, enemies, 1)
  ELSE bestOf(unit, tauntPool(Filter(enemies, {i \in DOMAIN enemies : enemies[i].canTaunt}), enemies), 2)

selectVisible(unit, enemies) ==
  selectAmong(unit, enemies, Filter(enemies, {i \in DOMAIN enemies : canAttack(unit, enemies[i])}))

\* selectTarget(unit) against the live roster us; NoId when there is no enemy.
\* invisibleTill is assigned nowhere in the program, so every enemy is visible.
selectTarget(unit, us) ==
  selectVisible(unit, Filter(us, {i \in DOMAIN us : us[i].team # unit.team /\ us[i].hp > 0}))

\* ------------------------------------------------------------------ state
VARIABLES
  phase,          \* 'placement' | 'battle'
  running,        \* the tick timer is armed
  round,          \* current round of the best-of-three
  teamAWins,
  teamBWins,
  units,          \* units.value, in array order
  bench,          \* bench[i] = the i-th bench item is placed
  history,        \* history.value
  tickCount,
  pendingMoves,   \* module-level pendingMoves (the granted moves after a tick)
  pendingAttacks, \* module-level pendingAttacks
  lastPosition,   \* Map: unit id -> cell it last intended to leave
  deniedStreak,   \* Map: unit id -> streak (read with ?? 0)
  lastTick,       \* the locals of the most recent tick() at its return
  lateTicks,      \* ticks of this battle that fired while an animation was pending
  contestedRun,   \* per unit, its current run of contested denials (bookkeeping)
  idCounter,      \* the counter behind id(), shared by units and visual effects
  placed,         \* what the last call of placeUnit() returned: "true" | "false"
  found,          \* the last call of astar(): its arguments and the path returned
  probe           \* the last call made of one helper of useGame on its own: its
                  \* name, its arguments and what it returned

vars == << phase, running, round, teamAWins, teamBWins, units, bench, history,
           tickCount, pendingMoves, pendingAttacks, lastPosition, deniedStreak,
           lastTick, lateTicks, contestedRun, idCounter, placed, found, probe >>

\* Map.set and "get(k) ?? 0" on a map kept as a function
Put(f, k, v) == [x \in (DOMAIN f) \cup {k} |-> IF x = k THEN v ELSE f[x]]
EmptyMap == [x \in {} |-> 0]
getOr0(f, k) == IF k \in DOMAIN f THEN f[k] ELSE 0

NoSearch ==
  [start |-> <<0, 0>>, goal |-> <<0, 0>>, occupied |-> {}, width |-> 0, height |-> 0,
   path |-> <<>>]

NoProbe == [fn |-> "none"]

NoTick ==
  [tick |-> -1, snapshot |-> <<>>, afterLoop |-> <<>>, intents |-> <<>>,
   startOcc |-> <<>>, moverIds |-> <<>>, edgesByUnit |-> <<>>,
   moversOrdered |-> <<>>, unitToDest |-> <<>>, searches |-> <<>>, allowed |-> <<>>,
   attacks |-> <<>>,
   preStreak |-> EmptyMap, preRun |-> EmptyMap]

Init ==
  /\ phase = "placement"
  /\ running = FALSE
  /\ round = 1
  /\ teamAWins = 0
  /\ teamBWins = 0
  /\ units = <<>>
  /\ bench = [i \in 1 .. BenchSize |-> FALSE]
  /\ history = <<>>
  /\ tickCount = 0
  /\ pendingMoves = <<>>
  /\ pendingAttacks = <<>>
  /\ lastPosition = EmptyMap
  /\ deniedStreak = EmptyMap
  /\ lastTick = NoTick
  /\ lateTicks = 0
  /\ contestedRun = EmptyMap
  /\ idCounter = 0
  /\ placed = "none"
  /\ found = NoSearch
  /\ probe = NoProbe

\* ------------------------------------------------------------------ tick: per-unit loop
\* index in us of the live unit a lock points at, 0 when there is none
LiveIndex(us, uid) ==
  IF \E i \in DOMAIN us : us[i].id = uid /\ us[i].hp > 0
  THEN CHOOSE i \in DOMAIN us : /\ us[i].id = uid /\ us[i].hp > 0
                                /\ \A j \in 1 .. (i - 1) : ~(us[j].id = uid /\ us[j].hp > 0)
  ELSE 0

\* the cooldown test of the attack branch left out: a unit in range always attacks
attackAnytime(unit) == TRUE

\* now - lastAttackAt >= cd, with a lastAttackAt of 0 counting as "never attacked"
cooldownOver(unit) == unit.sinceAttack = Never \/ unit.sinceAttack >= AttackCooldownMs

\* the cooldown test of the move branch left out: a unit may move while recovering
cooldownIgnored(unit) == FALSE

inCooldown(unit) == unit.sinceAttack # Never /\ unit.sinceAttack < AttackCooldownMs

\* an attack that does not record its time: lastAttackAt is left as it was
attackUnstamped(st, ai, ti) ==
  LET a == st.units[ai]
      t == st.units[ti]
      us1 == [st.units EXCEPT ![ti].hp = t.hp - a.atk]
      us2 == [us1 EXCEPT ![ai].lockedTargetId = IF a.lockedTargetId = NoId THEN t.id ELSE @]
  IN [st EXCEPT !.units = us2,
                !.idCounter = @ + 2,
                !.pendingAttacks = Append(@, [attackerId |-> a.id, targetId |-> t.id,
                                              fromX |-> a.x, fromY |-> a.y,
                                              toX |-> t.x, toY |-> t.y, damage |-> a.atk])]

\* attack(attacker, target) on the roster: damage, lock, timestamp, history event,
\* and one id() each for the attack effect and the particle
attack(st, ai, ti) ==
  LET a == st.units[ai]
      t == st.units[ti]
      us1 == [st.units EXCEPT ![ti].hp = t.hp - a.atk]
      us2 == [us1 EXCEPT ![ai].sinceAttack = 0,
                         ![ai].lockedTargetId = IF a.lockedTargetId = NoId THEN t.id ELSE @]
  IN [st EXCEPT !.units = us2,
                !.idCounter = @ + 2,
                !.pendingAttacks = Append(@, [attackerId |-> a.id, targetId |-> t.id,
                                              fromX |-> a.x, fromY |-> a.y,
                                              toX |-> t.x, toY |-> t.y, damage |-> a.atk])]

\* a unit out of range that stays where it is and records nothing
stayPut(st, ui) == st

\* moveToward(unit, target, occupied): on a board wider than one cell every branch of
\* the cascade records the unit's cell in lastPosition and pushes exactly one intent.
\* The intent's proposed destination (toX, toY) is read by nothing afterwards: the
\* resolver keeps only unitId (moverIds) and rebuilds the candidate cells itself, and
\* pendingMoves is overwritten by the granted moves, so the intent carries no cell.
moveToward(st, ui) ==
  LET u == st.units[ui]
  IN [st EXCEPT !.lastPosition = Put(@, u.id, Pos(u)),
                !.pendingMoves = Append(@, [unitId |-> u.id, team |-> u.team,
                                            fromX |-> u.x, fromY |-> u.y])]

\* steps 2 and 3 of the loop body: attack when in range and off cooldown, move
\* towards the target when out of range and not recovering
actOn(st, ui, ti) ==
  IF canAttack(st.units[ui], st.units[ti])
  THEN IF cooldownOver(st.units[ui]) THEN attack(st, ui, ti) ELSE st
  ELSE IF inCooldown(st.units[ui]) THEN st ELSE moveToward(st, ui)

\* step 1 once the lock is resolved: li is the index of the live locked unit or 0
withTarget(st, ui, tid) ==
  IF tid = NoId THEN st ELSE actOn(st, ui, IndexOfId(st.units, tid))

\* the lock not consulted: the target is selected afresh in every tick
lockForgotten(st, ui, li) == withTarget(st, ui, selectTarget(st.units[ui], st.units))

lockResolved(st, ui, li) ==
  IF li # 0 THEN actOn(st, ui, li)
  ELSE IF st.units[ui].lockedTargetId # NoId
  THEN withTarget([st EXCEPT !.units[ui].lockedTargetId = NoId], ui,
                  selectTarget([st.units[ui] EXCEPT !.lockedTargetId = NoId], st.units))
  ELSE withTarget(st, ui, selectTarget(st.units[ui], st.units))

unitAt(st, ui) ==
  IF ui = 0 THEN st
  ELSE IF st.units[ui].hp <= 0 \/ st.units[ui].anim # 0 THEN st
  ELSE lockResolved(st, ui, IF st.units[ui].lockedTargetId # NoId
                            THEN LiveIndex(st.units, st.units[ui].lockedTargetId)
                            ELSE 0)

\* the body of "for (const snap of snapshot)" for one unit
UnitStep(st, uid) == unitAt(st, IndexOfId(st.units, uid))

RECURSIVE UnitLoop(_, _, _)
UnitLoop(snapshot, i, st) ==
  IF i > Len(snapshot) THEN st
  ELSE UnitLoop(snapshot, i + 1, UnitStep(st, snapshot[i].id))

\* ------------------------------------------------------------------ tick: movement resolution
RECURSIVE BuildStartOcc(_, _, _)
\* startOcc: cell -> id over the whole snapshot, a later unit overwriting an earlier
BuildStartOcc(snapshot, i, m) ==
  IF i > Len(snapshot) THEN m
  ELSE BuildStartOcc(snapshot, i + 1, Put(m, Pos(snapshot[i]), snapshot[i].id))

RECURSIVE Unique(_, _, _)
\* Array.from(new Set(ids)): first occurrences, in order
Unique(ids, i, acc) ==
  IF i > Len(ids) THEN acc
  ELSE Unique(ids, i + 1, IF ids[i] \in Range(acc) THEN acc ELSE Append(acc, ids[i]))

\* the target the resolver sees for a mover: its live lock, else selectTarget
resolverTarget(u, us) ==
  IF u.lockedTargetId # NoId /\ LiveIndex(us, u.lockedTargetId) # 0
  THEN u.lockedTargetId ELSE selectTarget(u, us)

\* the unsorted edges of u over its in-bounds neighbours
rawEdges(u, target, valid) ==
  [k \in DOMAIN valid |->
     [unitId |-> u.id, team |-> u.team, fromX |-> u.x, fromY |-> u.y,
      toX |-> valid[k].x, toY |-> valid[k].y,
      delta |-> manhattan(Pos(u), Pos(target))
                - manhattan(<<valid[k].x, valid[k].y>>, Pos(target)),
      forward |-> IF isForward(u.team, valid[k].axis, valid[k].dir) THEN 1 ELSE 0]]

startOccupied(startOcc, e) == IF <<e.toX, e.toY>> \in DOMAIN startOcc THEN 1 ELSE 0

\* the edge comparator: empty-at-start first, then larger delta, then forward
edgeBefore(startOcc, a, b) ==
  \/ startOccupied(startOcc, a) < startOccupied(startOcc, b)
  \/ /\ startOccupied(startOcc, a) = startOccupied(startOcc, b)
     /\ \/ a.delta > b.delta
        \/ a.delta = b.delta /\ a.forward > b.forward

\* the four neighbours that lie on the board
validNeighbors(x, y) ==
  Filter(neighbors(x, y), {k \in 1 .. 4 : inBounds(neighbors(x, y)[k].x, neighbors(x, y)[k].y)})

\* edges.sort(...)
sortEdges(es, startOcc) ==
  StableSort(es, {p \in (DOMAIN es) \X (DOMAIN es) : edgeBefore(startOcc, es[p[1]], es[p[2]])})

\* the candidate edges of one mover towards its target, sorted
edgesOf(u, target, startOcc) ==
  sortEdges(rawEdges(u, target, validNeighbors(u.x, u.y)), startOcc)

\* one iteration of "for (const unitId of moverIds)": ui is the mover's index in
\* the roster (0 when absent), tid its target
edgesEntry(m, us, startOcc, ui, tid) ==
  IF tid = NoId THEN m
  ELSE Put(m, us[ui].id, edgesOf(us[ui], us[IndexOfId(us, tid)], startOcc))

moverEdges(m, us, startOcc, ui) ==
  IF ui = 0 THEN m ELSE edgesEntry(m, us, startOcc, ui, resolverTarget(us[ui], us))

RECURSIVE BuildEdges(_, _, _, _, _)
\* edgesByUnit: only movers found in the roster and having a target get an entry
BuildEdges(moverIds, i, us, startOcc, m) ==
  IF i > Len(moverIds) THEN m
  ELSE BuildEdges(moverIds, i + 1, us, startOcc,
                  moverEdges(m, us, startOcc, IndexOfId(us, moverIds[i])))

NegInfinity == -1000

edgesGet(edgesByUnit, uid) == IF uid \in DOMAIN edgesByUnit THEN edgesByUnit[uid] ELSE <<>>

\* Math.max(-Infinity, ...deltas)
maxDelta(es) ==
  IF Len(es) = 0 THEN NegInfinity
  ELSE CHOOSE d \in {es[k].delta : k \in DOMAIN es} : \A k \in DOMAIN es : es[k].delta <= d

\* a comparator that leaves the denied streak out of the mover ordering
orderIgnoringStreak(sa, sb, maxDa, maxDb, ua, ub) ==
  \/ maxDa > maxDb
  \/ maxDa = maxDb /\ idBefore(ua, ub)

\* the mover comparator: higher streak, then larger best delta, then smaller id
moverBefore(sa, sb, maxDa, maxDb, ua, ub) ==
  \/ sa > sb
  \/ sa = sb /\ maxDa > maxDb
  \/ sa = sb /\ maxDa = maxDb /\ idBefore(ua, ub)

\* the movers in matching order
moversOrdered(moverIds, streak, edgesByUnit) ==
  StableSort(moverIds,
             {p \in (DOMAIN moverIds) \X (DOMAIN moverIds) :
                moverBefore(getOr0(streak, moverIds[p[1]]), getOr0(streak, moverIds[p[2]]),
                            maxDelta(edgesGet(edgesByUnit, moverIds[p[1]])),
                            maxDelta(edgesGet(edgesByUnit, moverIds[p[2]])),
                            moverIds[p[1]], moverIds[p[2]])})

RECURSIVE dfs(_, _, _, _), dfsEdges(_, _, _, _, _, _)

\* the occupied-at-start branch without the recursion: the cell is taken whether
\* or not its occupier moves away
occupierIgnored(occupierId, rootFromKey, ctx, st) == [st EXCEPT !.ok = TRUE]

\* the occupied-at-start branch: the cell is taken only through dfs(occupierId, ...)
occupierVacates(occupierId, rootFromKey, ctx, st) == dfs(occupierId, rootFromKey, ctx, st)

\* dfs(uId, rootFromKey, seenUnits, seenDests); ctx holds edgesByUnit and startOcc,
\* st threads destToUnit, unitToDest (with its key insertion order), the two seen
\* sets and the boolean result; log lists, for the search of one root, every unit
\* expanded (past the seenUnits test) and every destination examined (past the
\* seenDests test), and searches keeps the logs of the tick (bookkeeping)
dfs(uId, rootFromKey, ctx, st) ==
  IF uId \in st.seenUnits THEN [st EXCEPT !.ok = FALSE]
  ELSE dfsEdges(uId, rootFromKey, ctx, edgesGet(ctx.edgesByUnit, uId), 1,
                [st EXCEPT !.seenUnits = @ \cup {uId}, !.log = Append(@, <<"unit", uId>>)])

\* destToUnit.set(destKey, uId); unitToDest.set(uId, destKey); return true
assign(st, uId, destKey) ==
  [st EXCEPT !.destToUnit = Put(@, destKey, uId),
             !.unitToDest = Put(@, uId, destKey),
             !.keyOrder = IF uId \in Range(@) THEN @ ELSE Append(@, uId),
             !.ok = TRUE]

\* do not reassign the occupier to the root's start cell
swapGuard(occupierId, rootFromKey, st) ==
  occupierId \in DOMAIN st.unitToDest /\ st.unitToDest[occupierId] = rootFromKey

\* after a recursive dfs returned r: take the cell, or go on with the next edge
afterRecursion(uId, rootFromKey, ctx, edges, k, r, destKey) ==
  IF r.ok THEN assign(r, uId, destKey)
  ELSE dfsEdges(uId, rootFromKey, ctx, edges, k + 1, r)

\* an occupied-at-start cell handed over like a free one, its occupier not asked
occupiedTaken(uId, rootFromKey, ctx, edges, k, st, destKey) == assign(st, uId, destKey)

\* the branch for a cell another unit stood on at the start of the tick: skipped
\* when that unit is assigned the root's start cell, else taken if it moves away
occupiedAtStart(uId, rootFromKey, ctx, edges, k, st, destKey) ==
  IF swapGuard(ctx.startOcc[destKey], rootFromKey, st)
  THEN dfsEdges(uId, rootFromKey, ctx, edges, k + 1, st)
  ELSE afterRecursion(uId, rootFromKey, ctx, edges, k,
                      occupierVacates(ctx.startOcc[destKey], rootFromKey, ctx, st),
                      destKey)

\* the branch for a cell empty at the start of the tick: taken when unmatched,
\* else when the unit matched to it can be reassigned
emptyAtStart(uId, rootFromKey, ctx, edges, k, st, destKey) ==
  IF destKey \notin DOMAIN st.destToUnit
  THEN assign(st, uId, destKey)
  ELSE afterRecursion(uId, rootFromKey, ctx, edges, k,
                      dfs(st.destToUnit[destKey], rootFromKey, ctx, st), destKey)

\* the loop body for the edge to destKey, st already holding destKey in seenDests
tryEdge(uId, rootFromKey, ctx, edges, k, st, destKey) ==
  IF destKey \notin DOMAIN ctx.startOcc
  THEN emptyAtStart(uId, rootFromKey, ctx, edges, k, st, destKey)
  ELSE IF ctx.startOcc[destKey] = uId
  THEN dfsEdges(uId, rootFromKey, ctx, edges, k + 1, st)
  ELSE occupiedAtStart(uId, rootFromKey, ctx, edges, k, st, destKey)

\* the loop over the edges without the seenDests test
dfsEdgesAgain(uId, rootFromKey, ctx, edges, k, st) ==
  IF k > Len(edges) THEN [st EXCEPT !.ok = FALSE]
  ELSE tryEdge(uId, rootFromKey, ctx, edges, k,
               [st EXCEPT !.seenDests = @ \cup {<<edges[k].toX, edges[k].toY>>},
                          !.log = Append(@, <<"dest", <<edges[k].toX, edges[k].toY>>>>)],
               <<edges[k].toX, edges[k].toY>>)

\* "for (const e of edges)" from the k-th edge on
dfsEdges(uId, rootFromKey, ctx, edges, k, st) ==
  IF k > Len(edges) THEN [st EXCEPT !.ok = FALSE]
  ELSE IF <<edges[k].toX, edges[k].toY>> \in st.seenDests
  THEN dfsEdges(uId, rootFromKey, ctx, edges, k + 1, st)
  ELSE tryEdge(uId, rootFromKey, ctx, edges, k,
               [st EXCEPT !.seenDests = @ \cup {<<edges[k].toX, edges[k].toY>>},
                          !.log = Append(@, <<"dest", <<edges[k].toX, edges[k].toY>>>>)],
               <<edges[k].toX, edges[k].toY>>)

\* the matching after one root's dfs, whatever it returned
matchingOf(r) ==
  [destToUnit |-> r.destToUnit, unitToDest |-> r.unitToDest, keyOrder |-> r.keyOrder,
   searches |-> Append(r.searches, r.log)]

\* one iteration of the matching loop for the root at index ui of the roster
matchRoot(uId, us, ctx, m, ui) ==
  IF ui = 0 THEN m
  ELSE matchingOf(dfs(uId, Pos(us[ui]), ctx,
                      [destToUnit |-> m.destToUnit, unitToDest |-> m.unitToDest,
                       keyOrder |-> m.keyOrder, seenUnits |-> {}, seenDests |-> {},
                       searches |-> m.searches, log |-> <<>>,
                       ok |-> FALSE]))

\* a matching loop that runs no dfs: no mover is ever granted a destination
matchingSkipped(ordered, i, us, ctx, m) == m

RECURSIVE RunMatching(_, _, _, _, _)
\* "for (const uId of moversOrdered)": one dfs per root with fresh seen sets
RunMatching(ordered, i, us, ctx, m) ==
  IF i > Len(ordered) THEN m
  ELSE RunMatching(ordered, i + 1, us, ctx,
                   matchRoot(ordered[i], us, ctx, m, IndexOfId(us, ordered[i])))

\* a granted move that leaps over the neighbouring cell, two steps from the start
moveLeap(u, dest) ==
  [unitId |-> u.id, team |-> u.team, fromX |-> u.x, fromY |-> u.y,
   toX |-> 2 * dest[1] - u.x, toY |-> 2 * dest[2] - u.y]

\* the MoveEvent pushed to allowed for a unit and its matched destination
moveEvent(u, dest) ==
  [unitId |-> u.id, team |-> u.team, fromX |-> u.x, fromY |-> u.y,
   toX |-> dest[1], toY |-> dest[2]]

movesOf(present, m, us) ==
  [k \in DOMAIN present |->
     moveEvent(us[IndexOfId(us, present[k])], m.unitToDest[present[k]])]

\* allowed: one MoveEvent per entry of unitToDest, in insertion order
allowedMoves(m, us) ==
  movesOf(Filter(m.keyOrder, {k \in DOMAIN m.keyOrder : IndexOfId(us, m.keyOrder[k]) # 0}), m, us)

\* animateMove(u, toX, toY): the animation starts, x and y stay
animateMove(us, ui, mv) ==
  IF ui = 0 THEN us
  ELSE [us EXCEPT ![ui].anim = 1, ![ui].animToX = mv.toX, ![ui].animToY = mv.toY]

RECURSIVE applyMoves(_, _, _)
\* "for (const mv of allowed)"
applyMoves(allowed, i, us) ==
  IF i > Len(allowed) THEN us
  ELSE applyMoves(allowed, i + 1,
                  animateMove(us, IndexOfId(us, allowed[i].unitId), allowed[i]))

\* ------------------------------------------------------------------ tick
teamOf(us, t) == Filter(us, {i \in DOMAIN us : us[i].team = t})

\* a streak update that never resets: every mover's streak is raised
streakNeverReset(streak, moverIds, allowedIds) ==
  [i \in (DOMAIN streak) \cup Range(moverIds) |->
     IF i \in Range(moverIds) THEN getOr0(streak, i) + 1 ELSE streak[i]]

\* the denied-streak update over the ids that intended to move
updateStreak(streak, moverIds, allowedIds) ==
  [i \in (DOMAIN streak) \cup Range(moverIds) |->
     IF i \in Range(moverIds)
     THEN IF i \in allowedIds THEN 0 ELSE getOr0(streak, i) + 1
     ELSE streak[i]]

\* the roster left as it is, dead units included
deadKept(us) == us

\* units.value.filter(u => u.hp > 0)
removeDead(us) == Filter(us, {i \in DOMAIN us : us[i].hp > 0})

\* an in-bounds neighbour cell of u that no unit of the snapshot stands on
hasFreeNeighbour(u, snapshot) ==
  \E k \in 1 .. 4 :
    LET n == neighbors(u.x, u.y)[k]
    IN inBounds(n.x, n.y) /\ \A j \in DOMAIN snapshot : Pos(snapshot[j]) # <<n.x, n.y>>

\* bookkeeping for the fairness claims, not program state: the number of
\* consecutive ticks in which a unit intended to move, had a free neighbour cell
\* at the start of the tick, and was granted nothing
countContested(run, snapshot, moverIds, allowedIds) ==
  [i \in {snapshot[k].id : k \in DOMAIN snapshot} |->
     IF /\ i \in Range(moverIds)
        /\ i \notin allowedIds
        /\ hasFreeNeighbour(snapshot[IndexOfId(snapshot, i)], snapshot)
     THEN getOr0(run, i) + 1 ELSE 0]

\* time passing between two ticks: TickInterval more ms since every last attack,
\* and the animations started by the previous tick are no longer the latest
elapse(us) ==
  [i \in DOMAIN us |->
     [us[i] EXCEPT !.sinceAttack = IF @ = Never THEN Never
                                   ELSE Min2(@ + TickInterval, AttackCooldownMs),
                   !.anim = IF @ = 0 THEN 0 ELSE 2]]

animating(us) == \E i \in DOMAIN us : us[i].anim # 0

\* the history entry numbered after the increment of tickCount
stepNumberedLate(count, allowed, attacks, alive) ==
  [tick |-> count + 1, moves |-> allowed, attacks |-> attacks,
   units |-> [k \in DOMAIN alive |->
                [id |-> alive[k].id, team |-> alive[k].team,
                 x |-> alive[k].x, y |-> alive[k].y, hp |-> alive[k].hp]]]

\* the history entry pushed by tick(): { tick: tickCount, moves, attacks, units }
stepRecord(count, allowed, attacks, alive) ==
  [tick |-> count, moves |-> allowed, attacks |-> attacks,
   units |-> [k \in DOMAIN alive |->
                [id |-> alive[k].id, team |-> alive[k].team,
                 x |-> alive[k].x, y |-> alive[k].y, hp |-> alive[k].hp]]]

\* what tick() leaves behind
tickOutcome(snapshot, st, startOcc, moverIds, edgesByUnit, ordered, m, allowed, alive, allowedIds, streak, count, run) ==
  [units |-> alive,
   pendingMoves |-> allowed,
   pendingAttacks |-> st.pendingAttacks,
   lastPosition |-> st.lastPosition,
   idCounter |-> st.idCounter,
   deniedStreak |-> updateStreak(streak, moverIds, allowedIds),
   contestedRun |-> countContested(run, snapshot, moverIds, allowedIds),
   step |-> stepRecord(count, allowed, st.pendingAttacks, alive),
   locals |-> [tick |-> count, snapshot |-> snapshot, afterLoop |-> st.units,
               intents |-> st.pendingMoves, startOcc |-> startOcc,
               moverIds |-> moverIds, edgesByUnit |-> edgesByUnit,
               moversOrdered |-> ordered, unitToDest |-> m.unitToDest,
               searches |-> m.searches,
               allowed |-> allowed, attacks |-> st.pendingAttacks,
               preStreak |-> streak, preRun |-> run]]

\* apply the granted moves, update the streaks, remove the dead
granted(snapshot, st, startOcc, moverIds, edgesByUnit, ordered, m, allowed, streak, count, run) ==
  tickOutcome(snapshot, st, startOcc, moverIds, edgesByUnit, ordered, m, allowed,
              removeDead(applyMoves(allowed, 1, st.units)),
              {allowed[k].unitId : k \in DOMAIN allowed}, streak, count, run)

\* the matching over the ordered movers, then the allowed moves
matched(snapshot, st, startOcc, moverIds, edgesByUnit, ordered, m, streak, count, run) ==
  granted(snapshot, st, startOcc, moverIds, edgesByUnit, ordered, m,
          allowedMoves(m, st.units), streak, count, run)

ordered(snapshot, st, startOcc, moverIds, edgesByUnit, order, streak, count, run) ==
  matched(snapshot, st, startOcc, moverIds, edgesByUnit, order,
          RunMatching(order, 1, st.units,
                      [edgesByUnit |-> edgesByUnit, startOcc |-> startOcc],
                      [destToUnit |-> EmptyMap, unitToDest |-> EmptyMap,
                       keyOrder |-> <<>>, searches |-> <<>>]),
          streak, count, run)

\* the resolver: candidate edges, mover order
resolve(snapshot, st, startOcc, moverIds, edgesByUnit, streak, count, run) ==
  ordered(snapshot, st, startOcc, moverIds, edgesByUnit,
          moversOrdered(moverIds, streak, edgesByUnit), streak, count, run)

withMovers(snapshot, st, startOcc, moverIds, streak, count, run) ==
  resolve(snapshot, st, startOcc, moverIds,
          BuildEdges(moverIds, 1, st.units, startOcc, EmptyMap), streak, count, run)

\* after the per-unit loop: start occupancy of the snapshot, ids that intend to move
afterUnitLoop(snapshot, st, streak, count, run) ==
  withMovers(snapshot, st, BuildStartOcc(snapshot, 1, EmptyMap),
             Unique([k \in DOMAIN st.pendingMoves |-> st.pendingMoves[k].unitId], 1, <<>>),
             streak, count, run)

onSnapshot(snapshot, streak, lastPos, count, run, idc) ==
  afterUnitLoop(snapshot,
                UnitLoop(snapshot, 1,
                         [units |-> snapshot, pendingMoves |-> <<>>,
                          pendingAttacks |-> <<>>, lastPosition |-> lastPos,
                          idCounter |-> idc]),
                streak, count, run)

\* everything tick() computes from the state it starts in
tickResult(us0, streak, lastPos, count, run, idc) ==
  onSnapshot(elapse(us0), streak, lastPos, count, run, idc)

\* "aAlive === 0 || bAlive === 0" and the winner endRound() is called with
roundOver(us) == Len(teamOf(us, "A")) = 0 \/ Len(teamOf(us, "B")) = 0
\* the win always credited to team B
winnerAlwaysB(us) == "B"

winnerOf(us) == IF Len(teamOf(us, "A")) > 0 THEN "A" ELSE "B"

\* endRound(winner) when over
endRound(over, winner) ==
  /\ running' = ~over
  /\ teamAWins' = IF over /\ winner = "A" THEN teamAWins + 1 ELSE teamAWins
  /\ teamBWins' = IF over /\ winner = "B" THEN teamBWins + 1 ELSE teamBWins
  /\ round' = IF over /\ round < MaxRounds THEN round + 1 ELSE round

\* the assignments of tick() from its result r
tickAssign(r) ==
  /\ units' = r.units
  /\ pendingMoves' = r.pendingMoves
  /\ pendingAttacks' = r.pendingAttacks
  /\ lastPosition' = r.lastPosition
  /\ deniedStreak' = r.deniedStreak
  /\ history' = Append(history, r.step)
  /\ tickCount' = tickCount + 1
  /\ lastTick' = r.locals
  /\ contestedRun' = r.contestedRun
  /\ idCounter' = r.idCounter
  /\ endRound(roundOver(r.units), winnerOf(r.units))

\* the interval timer fires: tick(), with endRound() when a team is wiped out
Tick ==
  /\ running
  /\ tickCount < MaxTicks
  /\ animating(units) => lateTicks < MaxLateTicks
  /\ tickAssign(tickResult(units, deniedStreak, lastPosition, tickCount, contestedRun,
                          idCounter))
  /\ lateTicks' = IF animating(units) THEN lateTicks + 1 ELSE lateTicks
  /\ UNCHANGED << phase, bench, placed, found, probe >>

\* a requestAnimationFrame callback: every animation older than the latest tick's
\* has run its 200 ms and lands; those started by the latest tick land too when
\* the frame comes late enough (all)
AnimFrame(all) ==
  /\ \E i \in DOMAIN units : units[i].anim = 2 \/ (all /\ units[i].anim = 1)
  /\ units' = [i \in DOMAIN units |->
                 IF units[i].anim = 2 \/ (all /\ units[i].anim = 1)
                 THEN [units[i] EXCEPT !.x = units[i].animToX, !.y = units[i].animToY,
                                       !.anim = 0, !.animToX = -1, !.animToY = -1]
                 ELSE units[i]]
  /\ UNCHANGED << phase, running, round, teamAWins, teamBWins, bench, history,
                  tickCount, pendingMoves, pendingAttacks, lastPosition,
                  deniedStreak, lastTick, lateTicks, contestedRun, idCounter, placed, found, probe >>

\* ------------------------------------------------------------------ placement and reset
placementComplete == \A i \in DOMAIN bench : bench[i]

\* the cells of the units placed so far are the first cells of scenario sc
followsScenario(sc, us) ==
  /\ Len(us) <= Len(sc)
  /\ \A i \in DOMAIN us : Pos(us[i]) = sc[i]

\* placeUnit('Soldier', x, y) for a drop that is accepted
PlaceUnit(x, y) ==
  /\ ~(y > PlacementMaxRow)
  /\ phase = "placement"
  /\ ~\E i \in DOMAIN units : units[i].x = x /\ units[i].y = y
  /\ \E b \in DOMAIN bench : ~bench[b]
  /\ LET b == CHOOSE b \in DOMAIN bench : ~bench[b] /\ \A c \in 1 .. (b - 1) : bench[c]
     IN /\ units' = Append(units, createUnit(idCounter + 1, "A", x, y))
        /\ bench' = [bench EXCEPT ![b] = TRUE]
  /\ idCounter' = idCounter + 1
  /\ placed' = "true"
  /\ UNCHANGED << phase, running, round, teamAWins, teamBWins, history, tickCount,
                  pendingMoves, pendingAttacks, lastPosition, deniedStreak,
                  lastTick, lateTicks, contestedRun, found, probe >>

\* the calls of placeUnit(role, x, y) that return false
placeRefused(role, x, y) ==
  \/ y > PlacementMaxRow
  \/ phase # "placement"
  \/ \E i \in DOMAIN units : units[i].x = x /\ units[i].y = y
  \/ ~(role = "Soldier" /\ \E b \in DOMAIN bench : ~bench[b])

\* placeUnit(role, x, y) returning false: nothing but the returned value changes
PlaceRefused(role, x, y) ==
  /\ placeRefused(role, x, y)
  /\ placed' = "false"
  /\ UNCHANGED << phase, running, round, teamAWins, teamBWins, units, bench, history,
                  tickCount, pendingMoves, pendingAttacks, lastPosition, deniedStreak,
                  lastTick, lateTicks, contestedRun, idCounter, found, probe >>

\* placeUnit(role, x, y) as a whole; every bench item is a Soldier
PlaceCall(role, x, y) ==
  \/ role = "Soldier" /\ PlaceUnit(x, y)
  \/ PlaceRefused(role, x, y)

RECURSIVE autoPlaceB(_, _, _, _)
\* the auto-placement loop of startBattle with the random draws that succeed: one
\* team B unit per team A unit, on the free cells bs of team B's zone
autoPlaceB(us, bs, i, idc) ==
  IF i > Len(bs) THEN us
  ELSE autoPlaceB(Append(us, createUnit(idc + 1, "B", bs[i][1], bs[i][2])), bs, i + 1,
                  idc + 1)

\* startBattle(): it tests placementComplete only, not the phase
StartBattle(bs) ==
  /\ placementComplete
  /\ Len(bs) = Len(teamOf(units, "A"))
  /\ \A i \in DOMAIN bs :
        /\ inBounds(bs[i][1], bs[i][2])
        /\ bs[i][2] >= BOARD_HEIGHT - ZoneBRows
        /\ \A j \in DOMAIN units : Pos(units[j]) # bs[i]
        /\ \A j \in 1 .. (i - 1) : bs[j] # bs[i]
  /\ phase' = "battle"
  /\ units' = autoPlaceB(units, bs, 1, idCounter)
  /\ idCounter' = idCounter + Len(bs)
  /\ history' = <<>>
  /\ tickCount' = 0
  /\ running' = TRUE
  /\ lateTicks' = 0
  /\ UNCHANGED << round, teamAWins, teamBWins, bench, pendingMoves, pendingAttacks,
                  lastPosition, deniedStreak, lastTick, contestedRun, placed, found, probe >>

\* enterPlacement() without the two clear() calls on the fairness maps
placementKeepingMaps ==
  /\ phase' = "placement"
  /\ running' = FALSE
  /\ units' = <<>>
  /\ bench' = [i \in DOMAIN bench |-> FALSE]
  /\ history' = <<>>
  /\ tickCount' = 0
  /\ lastTick' = NoTick
  /\ lateTicks' = 0
  /\ UNCHANGED << pendingMoves, pendingAttacks, idCounter, lastPosition, deniedStreak,
                  contestedRun, placed, found, probe >>

\* what enterPlacement() assigns
placementState ==
  /\ phase' = "placement"
  /\ running' = FALSE
  /\ units' = <<>>
  /\ bench' = [i \in DOMAIN bench |-> FALSE]
  /\ history' = <<>>
  /\ tickCount' = 0
  /\ lastPosition' = EmptyMap
  /\ deniedStreak' = EmptyMap
  /\ lastTick' = NoTick
  /\ lateTicks' = 0
  /\ contestedRun' = EmptyMap
  /\ UNCHANGED << pendingMoves, pendingAttacks, idCounter, placed, found, probe >>

\* resets are followed between battles and in the first ticks of one
resetFollowed == ~running \/ tickCount <= MaxResetTick

EnterPlacement ==
  /\ resetFollowed
  /\ placementState
  /\ UNCHANGED << round, teamAWins, teamBWins >>

ResetBO3 ==
  /\ resetFollowed
  /\ round' = 1
  /\ teamAWins' = 0
  /\ teamBWins' = 0
  /\ placementState

\* ------------------------------------------------------------------ specification
\* the Start Battle button is rendered in the placement phase only, and the
\* placements followed are those of Scenarios
Next ==
  \/ \E sc \in Scenarios :
        /\ followsScenario(sc, units)
        /\ Len(units) < BenchSize
        /\ Len(units) = 0 => idCounter <= MaxStartId
        /\ PlaceUnit(sc[Len(units) + 1][1], sc[Len(units) + 1][2])
  \/ \E sc \in Scenarios :
        /\ followsScenario(sc, units)
        /\ phase = "placement"
        /\ teamAWins + teamBWins < MaxBattles
        /\ StartBattle(SubSeq(sc, BenchSize + 1, 2 * BenchSize))
  \/ Tick
  \/ \E all \in BOOLEAN : AnimFrame(all)
  \/ EnterPlacement
  \/ ResetBO3

Spec == Init /\ [][Next]_vars

\* ------------------------------------------------------------------ a match of several rounds
\* the rounds a match is followed for
MaxMatchRounds == 4

\* a match in which every round is played from one placement, every animation
\* lands before the next tick, and enterPlacement() is called once a round has
\* ended
NextMatch ==
  \/ \E sc \in Scenarios :
        /\ followsScenario(sc, units)
        /\ Len(units) < BenchSize
        /\ PlaceUnit(sc[Len(units) + 1][1], sc[Len(units) + 1][2])
  \/ \E sc \in Scenarios :
        /\ followsScenario(sc, units)
        /\ phase = "placement"
        /\ teamAWins + teamBWins < MaxMatchRounds
        /\ StartBattle(SubSeq(sc, BenchSize + 1, 2 * BenchSize))
  \/ ~animating(units) /\ Tick
  \/ AnimFrame(TRUE)
  \/ ~running /\ tickCount > 0 /\ EnterPlacement

SpecMatch == Init /\ [][NextMatch]_vars

\* ------------------------------------------------------------------ the mover ordering alone
\* denied streaks the ordering is tried with
MaxStreak == 2
\* the unit ids it is tried with: four consecutive counter values, as the units
\* of one battle have, whose id strings do not sort like the numbers
OrderIds == {8, 9, 10, 11}

RECURSIVE ascending(_)
\* moverIds lists the movers in roster order, which is the order of creation
ascending(S) ==
  IF S = {} THEN <<>>
  ELSE LET lo == CHOOSE x \in S : \A y \in S : x <= y
       IN <<lo>> \o ascending(S \ {lo})

\* the candidate edges of a team A mover on row 3 towards a target on row 6
orderEdges(uid) ==
  edgesOf(createUnit(uid, "A", uid % BOARD_WIDTH, 3), createUnit(NoId, "B", 2, 6), EmptyMap)

RECURSIVE orderEdgeMap(_, _, _)
\* edgesByUnit with an entry for the movers in withEdges only
orderEdgeMap(ids, i, withEdges) ==
  IF i > Len(ids) THEN EmptyMap
  ELSE IF ids[i] \in withEdges
  THEN Put(orderEdgeMap(ids, i + 1, withEdges), ids[i], orderEdges(ids[i]))
  ELSE orderEdgeMap(ids, i + 1, withEdges)

\* the sort of useGame.ts:888-898 applied once to a choice of movers, streaks and
\* edges
OrderMovers(ids, streak, edgesByUnit) ==
  /\ lastTick = NoTick
  /\ lastTick' = [NoTick EXCEPT !.tick = 0, !.moverIds = ids, !.preStreak = streak,
                                !.edgesByUnit = edgesByUnit,
                                !.moversOrdered = moversOrdered(ids, streak, edgesByUnit)]
  /\ UNCHANGED << phase, running, round, teamAWins, teamBWins, units, bench, history,
                  tickCount, pendingMoves, pendingAttacks, lastPosition, deniedStreak,
                  lateTicks, contestedRun, idCounter, placed, found, probe >>

NextOrder ==
  \E S \in (SUBSET OrderIds) \ {{}} :
    \E streak \in [S -> 0 .. MaxStreak] :
      \E withEdges \in SUBSET S :
        OrderMovers(ascending(S), streak, orderEdgeMap(ascending(S), 1, withEdges))

SpecOrder == Init /\ [][NextOrder]_vars

\* ------------------------------------------------------------------ a battle started again without placement
\* the free cells of team B's zone, numbered from the bottom row leftwards-first
zoneKeys(us) ==
  {k \in 0 .. (ZoneBRows * BOARD_WIDTH - 1) :
     \A j \in DOMAIN us :
        Pos(us[j]) # <<k % BOARD_WIDTH, BOARD_HEIGHT - 1 - (k \div BOARD_WIDTH)>>}

\* one outcome of the random draws of startBattle(): the first n free cells of
\* team B's zone in that numbering
drawnCells(us, n) ==
  [i \in 1 .. n |->
     << ascending(zoneKeys(us))[i] % BOARD_WIDTH,
        BOARD_HEIGHT - 1 - (ascending(zoneKeys(us))[i] \div BOARD_WIDTH) >>]

\* startBattle() called once a round has ended, the game still in the battle
\* phase with the bench placed: the survivors stay, one team B unit is drawn
\* for each team A unit
Restart ==
  /\ ~running
  /\ phase = "battle"
  /\ teamAWins + teamBWins < MaxMatchRounds
  /\ StartBattle(drawnCells(units, Len(teamOf(units, "A"))))

NextRestart ==
  \/ \E sc \in Scenarios :
        /\ followsScenario(sc, units)
        /\ Len(units) < BenchSize
        /\ PlaceUnit(sc[Len(units) + 1][1], sc[Len(units) + 1][2])
  \/ \E sc \in Scenarios :
        /\ followsScenario(sc, units)
        /\ phase = "placement"
        /\ StartBattle(SubSeq(sc, BenchSize + 1, 2 * BenchSize))
  \/ ~animating(units) /\ Tick
  \/ AnimFrame(TRUE)
  \/ Restart

SpecRestart == Init /\ [][NextRestart]_vars

\* ------------------------------------------------------------------ placement with arbitrary arguments
Roles == {"Soldier", "Archer"}
\* the columns and rows placeUnit() is called with: on, at the edge of and just
\* off the board and the placement zone
PlaceXs == {-1, 0, BOARD_WIDTH - 1, BOARD_WIDTH}
PlaceYs == -1 .. (PlacementMaxRow + 1)

\* placeUnit() called with any role and cell, in the placement phase and, once
\* startBattle() has run, in the battle phase
NextPlace ==
  \/ \E role \in Roles, x \in PlaceXs, y \in PlaceYs : PlaceCall(role, x, y)
  \/ /\ phase = "placement"
     /\ StartBattle(drawnCells(units, Len(teamOf(units, "A"))))

SpecPlace == Init /\ [][NextPlace]_vars

\* ------------------------------------------------------------------ the resolver on a crowded corner
\* six units packed into a corner of the board, team A on rows 2-3 and team B on
\* rows 4-5, so that movers have few or no free neighbour cells
ClusterCells == << <<0, 3>>, <<1, 3>>, <<0, 2>>, <<0, 4>>, <<1, 4>>, <<0, 5>> >>

clusterTeam(i) == IF i <= BenchSize THEN "A" ELSE "B"

\* what a unit of the cluster may be locked on: nothing, or any unit of the other team
lockChoices(i) ==
  {NoId} \cup {j \in DOMAIN ClusterCells : clusterTeam(j) # clusterTeam(i)}

\* a unit that holds a lock has attacked; its cooldown has run out since
clusterUnit(i, lock) ==
  [createUnit(i, clusterTeam(i), ClusterCells[i][1], ClusterCells[i][2])
     EXCEPT !.lockedTargetId = lock,
            !.sinceAttack = IF lock = NoId THEN Never ELSE AttackCooldownMs]

\* the denied streaks the resolver starts from: none, or 1 for the unit first
\* (the unit created last, which the ordering then moves to the front)
clusterStreak(first) == IF first = NoId THEN EmptyMap ELSE Put(EmptyMap, first, 1)

\* one tick() on the cluster with the locks and the streak chosen
TickCluster(locks, first) ==
  /\ lastTick = NoTick
  /\ tickAssign(tickResult([i \in DOMAIN ClusterCells |-> clusterUnit(i, locks[i])],
                           clusterStreak(first), EmptyMap, 0, EmptyMap,
                           Len(ClusterCells)))
  /\ phase' = "battle"
  /\ bench' = [i \in DOMAIN bench |-> TRUE]
  /\ lateTicks' = 0
  /\ UNCHANGED << placed, found, probe >>

NextCluster ==
  \E l1 \in lockChoices(1), l2 \in lockChoices(2), l3 \in lockChoices(3),
     l4 \in lockChoices(4), l5 \in lockChoices(5), l6 \in lockChoices(6) :
    \E first \in {NoId, Len(ClusterCells)} :
       TickCluster(<<l1, l2, l3, l4, l5, l6>>, first)

SpecCluster == Init /\ [][NextCluster]_vars

\* ------------------------------------------------------------------ the range predicate alone
\* the largest attack range tried (the Archer's is 3, the Soldier's 1)
MaxRange == 3
UnitTypes == {"melee", "archer"}
\* the cells the attacker is tried on: a corner and an inner cell
RangeFrom == {<<0, 0>>, <<2, 3>>}

\* a unit of the given type and range, as createUnit builds it from its role
rangeUnit(uid, team, type, range, c) ==
  [createUnit(uid, team, c[1], c[2]) EXCEPT !.type = type, !.range = range]

\* one tick() on a roster of two: a team A unit of the type and range chosen on
\* cell a, and one enemy Soldier on cell b
TickRange(type, range, a, b) ==
  /\ lastTick = NoTick
  /\ tickAssign(tickResult(<< rangeUnit(1, "A", type, range, a), createUnit(2, "B", b[1], b[2]) >>,
                           EmptyMap, EmptyMap, 0, EmptyMap, 2))
  /\ phase' = "battle"
  /\ bench' = [i \in DOMAIN bench |-> TRUE]
  /\ lateTicks' = 0
  /\ UNCHANGED << placed, found, probe >>

NextRange ==
  \E type \in UnitTypes, range \in 1 .. MaxRange, a \in RangeFrom, b \in Cells :
    a # b /\ TickRange(type, range, a, b)

SpecRange == Init /\ [][NextRange]_vars

\* ------------------------------------------------------------------ a duel along one row
\* the rows the duel is tried on
DuelRows == 0 .. (BOARD_HEIGHT - 1)

\* a team A Soldier on column 0 and a lone team B Soldier on column 3 of one row
duelRoster(y) == << createUnit(1, "A", 0, y), createUnit(2, "B", 3, y) >>

\* the first tick() of a battle whose roster is the duel on row y
DuelStart(y) ==
  /\ lastTick = NoTick
  /\ tickAssign(tickResult(duelRoster(y), EmptyMap, EmptyMap, 0, EmptyMap, 2))
  /\ phase' = "battle"
  /\ bench' = [i \in DOMAIN bench |-> TRUE]
  /\ lateTicks' = 0
  /\ UNCHANGED << placed, found, probe >>

NextDuel ==
  \/ \E y \in DuelRows : DuelStart(y)
  \/ Tick
  \/ \E all \in BOOLEAN : AnimFrame(all)

SpecDuel == Init /\ [][NextDuel]_vars

\* ------------------------------------------------------------------ pathfinding alone
\* astar() is exported by the pathfinding module and called by its test file
\* only; cells are pairs <<x, y>>, and the string keys "x,y" of the open map
\* and of the closed and occupied sets are the pairs themselves

MaxSide == 3
MaxBlocked == 1

neighborsEight(c) ==
  << <<c[1] + 1, c[2]>>, <<c[1] - 1, c[2]>>, <<c[1], c[2] + 1>>, <<c[1], c[2] - 1>>,
     <<c[1] + 1, c[2] + 1>>, <<c[1] - 1, c[2] - 1>> >>

\* the four neighbours in the order of the array literal
neighborsOf(c) ==
  << <<c[1] + 1, c[2]>>, <<c[1] - 1, c[2]>>, <<c[1], c[2] + 1>>, <<c[1], c[2] - 1>> >>

\* Array.prototype.sort is stable: equal distances keep the literal's order
sortByGoal(ns, goal) ==
  LET before(i, j) ==
        \/ manhattan(ns[i], goal) < manhattan(ns[j], goal)
        \/ manhattan(ns[i], goal) = manhattan(ns[j], goal) /\ i < j
      rank(i) == Cardinality({j \in DOMAIN ns : before(j, i)}) + 1
  IN [k \in DOMAIN ns |-> ns[CHOOSE i \in DOMAIN ns : rank(i) = k]]

\* the scan of the open map in insertion order: a later node replaces the
\* current one only with a lower f, or the same f and a lower h
lowest(st) ==
  LET better(a, b) ==
        \/ st.nodes[a].f < st.nodes[b].f
        \/ st.nodes[a].f = st.nodes[b].f /\ st.nodes[a].h < st.nodes[b].h
      i == CHOOSE i \in DOMAIN st.open :
             /\ \A j \in DOMAIN st.open : ~better(st.open[j], st.open[i])
             /\ \A j \in 1 .. (i - 1) : better(st.open[i], st.open[j])
  IN st.open[i]

visitThroughUnits(st, cur, n, goal, occupied, width, height) ==
  IF n[1] < 0 \/ n[1] >= width \/ n[2] < 0 \/ n[2] >= height THEN st
  ELSE IF n \in st.closed THEN st
  ELSE IF (\E k \in DOMAIN st.open : st.open[k] = n) /\ ~(st.nodes[cur].g + 1 < st.nodes[n].g) THEN st
  ELSE [st EXCEPT
          !.open = IF \E k \in DOMAIN st.open : st.open[k] = n THEN @ ELSE Append(@, n),
          !.nodes = Put(@, n, [g |-> st.nodes[cur].g + 1,
                               h |-> manhattan(n, goal),
                               f |-> st.nodes[cur].g + 1 + manhattan(n, goal),
                               parent |-> <<cur>>])]

\* the body of the loop over the neighbours, for neighbour n of node cur
visit(st, cur, n, goal, occupied, width, height) ==
  IF n[1] < 0 \/ n[1] >= width \/ n[2] < 0 \/ n[2] >= height THEN st
  ELSE IF n \in st.closed THEN st
  ELSE IF n # goal /\ n \in occupied THEN st
  ELSE IF (\E k \in DOMAIN st.open : st.open[k] = n) /\ ~(st.nodes[cur].g + 1 < st.nodes[n].g) THEN st
  ELSE [st EXCEPT
          !.open = IF \E k \in DOMAIN st.open : st.open[k] = n THEN @ ELSE Append(@, n),
          !.nodes = Put(@, n, [g |-> st.nodes[cur].g + 1,
                               h |-> manhattan(n, goal),
                               f |-> st.nodes[cur].g + 1 + manhattan(n, goal),
                               parent |-> <<cur>>])]

RECURSIVE explore(_, _, _, _, _, _, _, _)
explore(st, cur, ns, k, goal, occupied, width, height) ==
  IF k > Len(ns) THEN st
  ELSE explore(visit(st, cur, ns[k], goal, occupied, width, height), cur, ns, k + 1, goal, occupied, width, height)

\* the walk back along the parents, each node put in front
RECURSIVE pathTo(_, _)
pathWithoutStart(nodes, c) ==
  IF nodes[c].parent = <<>> THEN <<>> ELSE Append(pathTo(nodes, nodes[c].parent[1]), c)

pathTo(nodes, c) ==
  IF nodes[c].parent = <<>> THEN <<c>> ELSE Append(pathTo(nodes, nodes[c].parent[1]), c)

closeAndForget(st, cur) ==
  [st EXCEPT !.open = <<>>, !.closed = @ \cup {cur}]

\* openSet.delete(currentKey); closedSet.add(currentKey)
closeNode(st, cur) ==
  [st EXCEPT !.open = SelectSeq(@, LAMBDA c : c # cur), !.closed = @ \cup {cur}]

RECURSIVE search(_, _, _, _, _)
expand(st, cur, goal, occupied, width, height) ==
  IF cur = goal THEN pathTo(st.nodes, cur)
  ELSE search(explore(closeNode(st, cur), cur, sortByGoal(neighborsOf(cur), goal), 1, goal, occupied, width, height), goal, occupied, width, height)

\* while (openSet.size > 0) ... return []
search(st, goal, occupied, width, height) ==
  IF st.open = <<>> THEN <<>> ELSE expand(st, lowest(st), goal, occupied, width, height)

startNode(start, goal) ==
  [g |-> 0, h |-> manhattan(start, goal), f |-> manhattan(start, goal), parent |-> <<>>]

astar(start, goal, occupied, width, height) ==
  IF start = goal THEN <<start>>
  ELSE search([open |-> <<start>>, nodes |-> [c \in {start} |-> startNode(start, goal)], closed |-> {}], goal, occupied, width, height)

\* one call of astar(), with its arguments and what it returned
Astar(start, goal, occupied, width, height) ==
  /\ found' = [start |-> start, goal |-> goal, occupied |-> occupied, width |-> width,
               height |-> height, path |-> astar(start, goal, occupied, width, height)]
  /\ UNCHANGED << phase, running, round, teamAWins, teamBWins, units, bench, history,
                  tickCount, pendingMoves, pendingAttacks, lastPosition, deniedStreak,
                  lastTick, lateTicks, contestedRun, idCounter, placed, probe >>

cellsOf(width, height) == (0 .. (width - 1)) \X (0 .. (height - 1))

\* the sets of at most n of the given cells
RECURSIVE atMost(_, _)
atMost(cells, n) ==
  IF n = 0 THEN {{}}
  ELSE atMost(cells, n - 1) \cup {s \cup {c} : s \in atMost(cells, n - 1), c \in cells}

\* the three calls of pathfinding.spec.ts, on the 5 x 8 board
SpecCalls ==
  { [start |-> <<0, 0>>, goal |-> <<4, 0>>, occupied |-> {}],
    [start |-> <<0, 0>>, goal |-> <<2, 0>>, occupied |-> {<<2, 0>>}],
    [start |-> <<0, 0>>, goal |-> <<2, 0>>, occupied |-> {<<1, 0>>, <<0, 1>>}] }

\* astar() is pure: one call per behaviour, on a grid of sides up to MaxSide
\* with up to MaxBlocked occupied cells, or one of the test file's calls
NextAstar ==
  \/ /\ found = NoSearch
     /\ \E width \in 1 .. MaxSide, height \in 1 .. MaxSide :
          \E start \in cellsOf(width, height), goal \in cellsOf(width, height) :
            \E occupied \in atMost(cellsOf(width, height), MaxBlocked) :
              Astar(start, goal, occupied, width, height)
  \/ /\ found = NoSearch
     /\ \E c \in SpecCalls : Astar(c.start, c.goal, c.occupied, BOARD_WIDTH, BOARD_HEIGHT)

SpecAstar == Init /\ [][NextAstar]_vars

\* ------------------------------------------------------------------ rotation during placement and battle
MaxRotateTicks == 2

\* rotateUnit(unitId)
RotateUnit(unitId) ==
  /\ units' = [i \in DOMAIN units |->
                 IF units[i].id = unitId /\ phase = "placement"
                 THEN [units[i] EXCEPT !.facing = rotateFacing(@)]
                 ELSE units[i]]
  /\ UNCHANGED << phase, running, round, teamAWins, teamBWins, bench, history,
                  tickCount, pendingMoves, pendingAttacks, lastPosition, deniedStreak,
                  lastTick, lateTicks, contestedRun, idCounter, placed, found, probe >>

\* the ids of the units placed, the id 0 no unit has and the first id of team B
RotateIds == 0 .. (BenchSize + 1)

NextRotate ==
  \/ \E sc \in Scenarios :
        /\ followsScenario(sc, units)
        /\ Len(units) < BenchSize
        /\ PlaceUnit(sc[Len(units) + 1][1], sc[Len(units) + 1][2])
  \/ \E unitId \in RotateIds : RotateUnit(unitId)
  \/ \E sc \in Scenarios :
        /\ followsScenario(sc, units)
        /\ phase = "placement"
        /\ StartBattle(SubSeq(sc, BenchSize + 1, 2 * BenchSize))
  \/ tickCount < MaxRotateTicks /\ Tick
  \/ \E all \in BOOLEAN : AnimFrame(all)

SpecRotate == Init /\ [][NextRotate]_vars

\* ------------------------------------------------------------------ target selection alone
MaxEnemies == 2

\* a roster for one call of selectTarget: the unit asking, of the type and
\* range chosen, on cell (2,3), then one enemy per entry of es; an enemy killed
\* earlier in the loop of the tick is still in the roster, with no hp left
selectRoster(type, range, es) ==
  << rangeUnit(1, "A", type, range, <<2, 3>>) >> \o
  [i \in DOMAIN es |-> [createUnit(i + 1, "B", es[i].cell[1], es[i].cell[2])
                          EXCEPT !.canTaunt = es[i].canTaunt, !.hp = es[i].hp]]

\* one call selectTarget(unit) against the roster us
SelectCall(us) ==
  /\ probe' = [fn |-> "selectTarget", unit |-> us[1], us |-> us,
               result |-> selectTarget(us[1], us)]
  /\ UNCHANGED << phase, running, round, teamAWins, teamBWins, units, bench, history,
                  tickCount, pendingMoves, pendingAttacks, lastPosition, deniedStreak,
                  lastTick, lateTicks, contestedRun, idCounter, placed, found >>

\* selectTarget reads the roster only: one call per behaviour, with up to
\* MaxEnemies enemies on distinct cells near and far from the unit
NextSelect ==
  /\ probe = NoProbe
  /\ \E type \in UnitTypes, range \in 1 .. MaxRange, n \in 0 .. MaxEnemies :
       \E es \in [1 .. n -> [cell : {<<2, 4>>, <<3, 3>>, <<3, 4>>, <<2, 5>>, <<4, 3>>, <<2, 6>>, <<1, 1>>, <<2, 7>>},
                             canTaunt : BOOLEAN, hp : {0, SoldierHp}]] :
         /\ \A i, j \in 1 .. n : i # j => es[i].cell # es[j].cell
         /\ SelectCall(selectRoster(type, range, es))

SpecSelect == Init /\ [][NextSelect]_vars

\* ------------------------------------------------------------------ the next-step hints alone
\* bfsNextStep and bfsTowardReducing differ in their goal test only; mode is
\* "attack" for the first and "reduce" for the second. Cells are pairs and stand
\* for the keys "x,y"; NoStep is their null

NoStep == <<>>

dirs == << <<1, 0>>, <<-1, 0>>, <<0, 1>>, <<0, -1>> >>

\* canAttackFrom(cur) of bfsNextStep, curDist < startDist of bfsTowardReducing
bfsGoal(mode, unit, target, c) ==
  IF mode = "attack" THEN canAttack([unit EXCEPT !.x = c[1], !.y = c[2]], target)
  ELSE manhattan(c, Pos(target)) < manhattan(Pos(unit), Pos(target))

\* the first step may enter an occupied cell
bfsVisitAnyCell(st, cur, d, start, occupied) ==
  LET n == <<cur[1] + d[1], cur[2] + d[2]>>
  IN IF ~inBounds(n[1], n[2]) THEN st
     ELSE IF n \in DOMAIN st.prev THEN st
     ELSE [q |-> Append(st.q, n), prev |-> Put(st.prev, n, cur)]

\* the body of "for (const [dx, dy] of dirs)"
bfsVisit(st, cur, d, start, occupied) ==
  LET n == <<cur[1] + d[1], cur[2] + d[2]>>
  IN IF ~inBounds(n[1], n[2]) THEN st
     ELSE IF cur = start /\ n \in occupied THEN st
     ELSE IF n \in DOMAIN st.prev THEN st
     ELSE [q |-> Append(st.q, n), prev |-> Put(st.prev, n, cur)]

\* the walk back from the goal to the cell whose parent is the start
RECURSIVE firstStep(_, _, _)
firstStep(prev, c, start) ==
  IF prev[c] = NoStep \/ prev[c] = start THEN (IF c = start THEN NoStep ELSE c)
  ELSE firstStep(prev, prev[c], start)

RECURSIVE bfsLoop(_, _, _, _, _)
\* one turn of the while loop for the dequeued cell cur
bfsAt(st, cur, unit, target, occupied, mode) ==
  IF cur # Pos(unit) /\ bfsGoal(mode, unit, target, cur) THEN firstStep(st.prev, cur, Pos(unit))
  ELSE bfsLoop(bfsVisit(bfsVisit(bfsVisit(bfsVisit(st, cur, dirs[1], Pos(unit), occupied), cur, dirs[2], Pos(unit), occupied), cur, dirs[3], Pos(unit), occupied), cur, dirs[4], Pos(unit), occupied), unit, target, occupied, mode)

bfsLoop(st, unit, target, occupied, mode) ==
  IF st.q = <<>> THEN NoStep
  ELSE bfsAt([st EXCEPT !.q = Tail(@)], Head(st.q), unit, target, occupied, mode)

bfsNextStep(unit, target, occupied) ==
  bfsLoop([q |-> <<Pos(unit)>>, prev |-> [c \in {Pos(unit)} |-> NoStep]], unit, target, occupied, "attack")

bfsTowardReducing(unit, target, occupied) ==
  bfsLoop([q |-> <<Pos(unit)>>, prev |-> [c \in {Pos(unit)} |-> NoStep]], unit, target, occupied, "reduce")

\* one call of a hint, with its arguments and what it returned
BfsCall(mode, unit, target, occupied) ==
  /\ probe' = [fn |-> mode, unit |-> unit, target |-> target, occupied |-> occupied,
               result |-> IF mode = "attack" THEN bfsNextStep(unit, target, occupied)
                          ELSE bfsTowardReducing(unit, target, occupied)]
  /\ UNCHANGED << phase, running, round, teamAWins, teamBWins, units, bench, history,
                  tickCount, pendingMoves, pendingAttacks, lastPosition, deniedStreak,
                  lastTick, lateTicks, contestedRun, idCounter, placed, found >>

\* the hints read the unit, the target and the occupancy of the tick only: one
\* call per behaviour, the unit on a corner, an edge or an inner cell, the
\* target anywhere else; occupancy is read for the neighbours of the unit only,
\* and the cells of the unit and of the target are occupied
NextBfs ==
  /\ probe = NoProbe
  /\ \E mode \in {"attack", "reduce"}, type \in UnitTypes, a \in {<<0, 0>>, <<2, 0>>, <<2, 3>>}, b \in Cells :
       \E blocked \in SUBSET {n \in Cells : manhattan(n, a) = 1} :
         /\ a # b
         /\ BfsCall(mode, rangeUnit(1, "A", type, IF type = "archer" THEN MaxRange ELSE SoldierRange, a),
                    createUnit(2, "B", b[1], b[2]), blocked \cup {a, b})

SpecBfs == Init /\ [][NextBfs]_vars

\* ------------------------------------------------------------------ properties
\* a tick has run since the last return to placement
ticked == lastTick.tick >= 0
toCell(mv) == <<mv.toX, mv.toY>>
fromCell(mv) == <<mv.fromX, mv.fromY>>
allowedIdsOf(t) == {t.allowed[k].unitId : k \in DOMAIN t.allowed}
snapshotIds(t) == {t.snapshot[k].id : k \in DOMAIN t.snapshot}
unitOf(us, uid) == us[IndexOfId(us, uid)]

\* C1: after the move resolution of a tick no two granted moves have the same
\* destination cell, and no two live units of the roster stand on the same cell
C1_NoSharedCell ==
  /\ \A i, j \in DOMAIN lastTick.allowed :
        i # j => toCell(lastTick.allowed[i]) # toCell(lastTick.allowed[j])
  /\ \A i, j \in DOMAIN units : i # j => Pos(units[i]) # Pos(units[j])

\* C2: a cell occupied at the start of the tick is granted to a mover only if every
\* unit standing on it at the start of the tick is itself granted a move to a
\* different cell; the cell of a unit that does not move is granted to nobody
C2_OccupiedOnlyIfVacated ==
  \A k \in DOMAIN lastTick.allowed :
    \A j \in DOMAIN lastTick.snapshot :
      Pos(lastTick.snapshot[j]) = toCell(lastTick.allowed[k])
        => \E k2 \in DOMAIN lastTick.allowed :
              /\ lastTick.allowed[k2].unitId = lastTick.snapshot[j].id
              /\ toCell(lastTick.allowed[k2]) # Pos(lastTick.snapshot[j])

\* a mover is granted a cell on which a unit stood when the tick began
C2_Witness ==
  /\ ticked
  /\ \E k \in DOMAIN lastTick.allowed :
       \E j \in DOMAIN lastTick.snapshot :
          Pos(lastTick.snapshot[j]) = toCell(lastTick.allowed[k])

\* C3: no two granted moves of one tick exchange their cells
C3_NoSwap ==
  \A i, j \in DOMAIN lastTick.allowed :
     ~ /\ fromCell(lastTick.allowed[i]) = toCell(lastTick.allowed[j])
       /\ toCell(lastTick.allowed[i]) = fromCell(lastTick.allowed[j])

\* a mover is granted the start cell of a second mover that had the first one's
\* start cell among its candidate edges, and the second mover goes elsewhere
C3_Witness ==
  /\ ticked
  /\ \E i, j \in DOMAIN lastTick.allowed :
        /\ toCell(lastTick.allowed[i]) = fromCell(lastTick.allowed[j])
        /\ lastTick.allowed[j].unitId \in DOMAIN lastTick.edgesByUnit
        /\ \E e \in Range(lastTick.edgesByUnit[lastTick.allowed[j].unitId]) :
              toCell(e) = fromCell(lastTick.allowed[i])
        /\ toCell(lastTick.allowed[j]) # fromCell(lastTick.allowed[i])

\* the best distance improvement among a mover's candidate edges in tick record t
bestDeltaIn(t, uid) ==
  IF uid \in DOMAIN t.edgesByUnit /\ Len(t.edgesByUnit[uid]) > 0
  THEN CHOOSE d \in {e.delta : e \in Range(t.edgesByUnit[uid])} :
          \A e \in Range(t.edgesByUnit[uid]) : e.delta <= d
  ELSE NegInfinity

\* C4: in the mover ordering of a tick a higher denied streak comes first, among
\* equal streaks the larger best distance improvement, then the smaller unit id
C4_MoverOrder ==
  \A i, j \in DOMAIN lastTick.moversOrdered :
    i < j =>
      LET a == lastTick.moversOrdered[i]
          b == lastTick.moversOrdered[j]
          sa == getOr0(lastTick.preStreak, a)
          sb == getOr0(lastTick.preStreak, b)
      IN /\ sa >= sb
         /\ sa = sb => bestDeltaIn(lastTick, a) >= bestDeltaIn(lastTick, b)
         /\ (sa = sb /\ bestDeltaIn(lastTick, a) = bestDeltaIn(lastTick, b))
               => idBefore(a, b)

\* an ordering in which each of the three keys decides a pair: a lower streak after
\* a higher one, a mover without candidates after one with, and the unit created
\* later placed first because its id string is the smaller one
C4_Witness ==
  /\ ticked
  /\ \E i, j \in DOMAIN lastTick.moversOrdered :
        /\ i < j
        /\ getOr0(lastTick.preStreak, lastTick.moversOrdered[i])
             > getOr0(lastTick.preStreak, lastTick.moversOrdered[j])
  /\ \E i, j \in DOMAIN lastTick.moversOrdered :
        /\ i < j
        /\ getOr0(lastTick.preStreak, lastTick.moversOrdered[i])
             = getOr0(lastTick.preStreak, lastTick.moversOrdered[j])
        /\ bestDeltaIn(lastTick, lastTick.moversOrdered[i])
             > bestDeltaIn(lastTick, lastTick.moversOrdered[j])
  /\ \E i, j \in DOMAIN lastTick.moversOrdered :
        /\ i < j
        /\ getOr0(lastTick.preStreak, lastTick.moversOrdered[i])
             = getOr0(lastTick.preStreak, lastTick.moversOrdered[j])
        /\ bestDeltaIn(lastTick, lastTick.moversOrdered[i])
             = bestDeltaIn(lastTick, lastTick.moversOrdered[j])
        /\ lastTick.moversOrdered[i] > lastTick.moversOrdered[j]

\* C5: after the matching a mover that was granted a destination has streak 0, a
\* mover that was granted none has its streak raised by exactly 1, and the streak
\* of a unit that did not intend to move is what it was
C5_StreakUpdate ==
  ticked =>
    \A uid \in snapshotIds(lastTick) \cup DOMAIN lastTick.preStreak :
      IF uid \in Range(lastTick.moverIds)
      THEN IF uid \in allowedIdsOf(lastTick)
           THEN getOr0(deniedStreak, uid) = 0
           ELSE getOr0(deniedStreak, uid) = getOr0(lastTick.preStreak, uid) + 1
      ELSE getOr0(deniedStreak, uid) = getOr0(lastTick.preStreak, uid)

\* a mover that had been denied is granted a destination and its streak is reset,
\* after a tick that raised a denied mover's streak
C5_Witness ==
  /\ ticked
  /\ \E uid \in Range(lastTick.moverIds) :
        /\ getOr0(lastTick.preStreak, uid) > 0
        /\ uid \in allowedIdsOf(lastTick)
        /\ getOr0(deniedStreak, uid) = 0

C7_DuelArbitration ==
  \A i, j \in DOMAIN lastTick.allowed :
     LET u == lastTick.allowed[i].unitId
         v == lastTick.allowed[j].unitId
     IN ~ /\ lastTick.allowed[i].team # lastTick.allowed[j].team
          /\ u \in DOMAIN lastTick.edgesByUnit /\ v \in DOMAIN lastTick.edgesByUnit
          /\ \E eu \in Range(lastTick.edgesByUnit[u]) :
                \E ev \in Range(lastTick.edgesByUnit[v]) :
                   chebyshev(toCell(eu), toCell(ev)) <= SoldierRange

\* the units of the roster after the per-unit loop whose health is 0 or below
deadAfterLoop(t) == {k \in DOMAIN t.afterLoop : t.afterLoop[k].hp <= 0}

\* C8: a unit whose health dropped to 0 or below in a tick takes no part in that
\* tick's movement resolution: it has no candidate edges, it is granted no
\* destination, and the cell it stood on is not withheld from a live mover that
\* is granted nothing
C8_DeadTakesNoPart ==
  ticked =>
    \A k \in deadAfterLoop(lastTick) :
      /\ lastTick.afterLoop[k].id \notin DOMAIN lastTick.edgesByUnit
      /\ lastTick.afterLoop[k].id \notin allowedIdsOf(lastTick)
      /\ \A uid \in Range(lastTick.moverIds) :
            ~ /\ uid \notin allowedIdsOf(lastTick)
              /\ unitOf(lastTick.afterLoop, uid).hp > 0
              /\ uid \in DOMAIN lastTick.edgesByUnit
              /\ \E e \in Range(lastTick.edgesByUnit[uid]) :
                    /\ toCell(e) = Pos(lastTick.afterLoop[k])
                    /\ lastTick.startOcc[toCell(e)] = lastTick.afterLoop[k].id

\* C9: at the end of every tick, when its record is appended and until the next
\* tick, the roster and the record's unit list hold no unit with health 0 or
\* below and no unit with more health than its maximum
C9_RosterHealth ==
  /\ \A i \in DOMAIN units : units[i].hp > 0 /\ units[i].hp <= units[i].maxHp
  /\ \A h \in DOMAIN history : \A k \in DOMAIN history[h].units :
        history[h].units[k].hp > 0 /\ history[h].units[k].hp <= SoldierHp

\* a unit was brought to 0 health or below in the last tick and is gone
C9_Witness ==
  /\ ticked
  /\ \E k \in deadAfterLoop(lastTick) :
        \A i \in DOMAIN units : units[i].id # lastTick.afterLoop[k].id

\* C10: no unit is both an attacker and a granted mover of one tick, and no unit
\* that is inside its attack cooldown window at the tick is granted a move
C10_AttackMoveExclusive ==
  ticked =>
    /\ \A a \in DOMAIN lastTick.attacks : \A k \in DOMAIN lastTick.allowed :
          lastTick.attacks[a].attackerId # lastTick.allowed[k].unitId
    /\ \A k \in DOMAIN lastTick.allowed :
          LET u == unitOf(lastTick.snapshot, lastTick.allowed[k].unitId)
          IN u.sinceAttack = Never \/ u.sinceAttack >= AttackCooldownMs

\* a live unit inside its cooldown window that is not being animated, stands
\* out of reach of every live enemy, of which there is one, and is granted no move
C10_Witness ==
  /\ ticked
  /\ \E k \in DOMAIN lastTick.snapshot :
       LET u == lastTick.snapshot[k]
           foes == {j \in DOMAIN lastTick.afterLoop :
                      /\ lastTick.afterLoop[j].team # u.team
                      /\ lastTick.afterLoop[j].hp > 0}
       IN /\ u.sinceAttack # Never /\ u.sinceAttack < AttackCooldownMs
          /\ u.anim = 0
          /\ unitOf(lastTick.afterLoop, u.id).hp > 0
          /\ foes # {}
          /\ \A j \in foes : chebyshev(Pos(u), Pos(lastTick.afterLoop[j])) > SoldierRange
          /\ u.id \notin allowedIdsOf(lastTick)

\* C11: a unit attacks in a tick only if its target satisfies its range predicate
\* at that moment and its cooldown has run out since its previous attack (or it
\* never attacked); two attacks of one unit are at least
\* ceil(AttackCooldownMs / TickInterval) = 3 ticks apart
C11_AttackGuard ==
  /\ ticked =>
       \A k \in DOMAIN lastTick.attacks :
          LET a == lastTick.attacks[k]
              u == unitOf(lastTick.snapshot, a.attackerId)
          IN /\ IF u.type = "melee"
                THEN chebyshev(<<a.fromX, a.fromY>>, <<a.toX, a.toY>>) <= 1
                ELSE manhattan(<<a.fromX, a.fromY>>, <<a.toX, a.toY>>) <= u.range
             /\ Pos(u) = <<a.fromX, a.fromY>>
             /\ u.sinceAttack = Never \/ u.sinceAttack >= AttackCooldownMs
  /\ \A i \in DOMAIN history : \A j \in DOMAIN history :
       \A p \in DOMAIN history[i].attacks : \A q \in DOMAIN history[j].attacks :
          (i < j /\ history[i].attacks[p].attackerId = history[j].attacks[q].attackerId)
            => history[j].tick - history[i].tick
                 >= (AttackCooldownMs + TickInterval - 1) \div TickInterval

\* a unit attacks for the second time, exactly three ticks after its first attack
C11_Witness ==
  \E i \in DOMAIN history : \E j \in DOMAIN history :
    \E p \in DOMAIN history[i].attacks : \E q \in DOMAIN history[j].attacks :
       /\ history[i].attacks[p].attackerId = history[j].attacks[q].attackerId
       /\ history[j].tick = history[i].tick + 3

RECURSIVE damageTaken(_, _, _)
\* the damage the attacks from the i-th on deal to unit uid
damageTaken(attacks, uid, i) ==
  IF i > Len(attacks) THEN 0
  ELSE (IF attacks[i].targetId = uid THEN attacks[i].damage ELSE 0)
       + damageTaken(attacks, uid, i + 1)

\* the attacks of a tick made by unit uid
attacksBy(attacks, uid) == {k \in DOMAIN attacks : attacks[k].attackerId = uid}

\* C12: over the per-unit loop of a tick every attack takes exactly the attacker's
\* attack power from its target's health, restarts the attacker's cooldown, and
\* leaves the attacker locked on the attacked unit: the lock is set when the
\* attacker held none (or one it had just dropped), and a lock on a living unit
\* stays. Nothing else of any unit changes: positions, animation state, the
\* health of units that were not attacked, the cooldown of units that did not
\* attack
C12_AttackFrame ==
  ticked =>
    \A k \in DOMAIN lastTick.snapshot :
       LET s == lastTick.snapshot[k]
           e == lastTick.afterLoop[k]
           by == attacksBy(lastTick.attacks, s.id)
       IN /\ e.hp = s.hp - damageTaken(lastTick.attacks, s.id, 1)
          /\ e = [s EXCEPT !.hp = e.hp, !.sinceAttack = e.sinceAttack,
                           !.lockedTargetId = e.lockedTargetId]
          /\ Cardinality(by) <= 1
          /\ \A a \in by :
                /\ lastTick.attacks[a].damage = s.atk
                /\ e.sinceAttack = 0
                /\ e.lockedTargetId = lastTick.attacks[a].targetId
                /\ (/\ s.lockedTargetId # NoId
                    /\ \E j \in DOMAIN lastTick.afterLoop :
                          /\ lastTick.afterLoop[j].id = s.lockedTargetId
                          /\ lastTick.afterLoop[j].hp > 0)
                     => e.lockedTargetId = s.lockedTargetId
          /\ by = {} =>
                /\ e.sinceAttack = s.sinceAttack
                /\ e.lockedTargetId \in {s.lockedTargetId, NoId}

\* a tick in which a unit without a lock attacks and is locked on its target
\* afterwards, while another attacker keeps the lock it already held; the target
\* of the first loses exactly the attack power of those that hit it
C12_Witness ==
  /\ ticked
  /\ \E a \in DOMAIN lastTick.attacks : \E b \in DOMAIN lastTick.attacks :
        LET sa == unitOf(lastTick.snapshot, lastTick.attacks[a].attackerId)
            sb == unitOf(lastTick.snapshot, lastTick.attacks[b].attackerId)
            t == lastTick.attacks[a].targetId
        IN /\ sa.lockedTargetId = NoId
           /\ unitOf(lastTick.afterLoop, sa.id).lockedTargetId = t
           /\ sb.lockedTargetId = lastTick.attacks[b].targetId
           /\ unitOf(lastTick.afterLoop, t).hp
                = unitOf(lastTick.snapshot, t).hp - damageTaken(lastTick.attacks, t, 1)
           /\ damageTaken(lastTick.attacks, t, 1) >= SoldierAtk

\* C13: canAttack(unit, target) is true for a melee unit exactly when the
\* Chebyshev distance of the two cells is at most 1, whatever its range, and for
\* any other unit exactly when their Manhattan distance is at most the unit's
\* range; a unit that has never attacked attacks its only enemy in a tick exactly
\* when canAttack is true of the two
C13_CanAttack ==
  (ticked /\ Len(lastTick.snapshot) = 2) =>
    LET u == lastTick.snapshot[1]
        t == lastTick.snapshot[2]
        inReach == IF u.type = "melee" THEN chebyshev(Pos(u), Pos(t)) <= 1
                   ELSE manhattan(Pos(u), Pos(t)) <= u.range
    IN /\ canAttack(u, t) <=> inReach
       /\ (u.sinceAttack = Never /\ u.team # t.team)
            => (attacksBy(lastTick.attacks, u.id) # {} <=> inReach)

\* a melee unit on (0,0) has attacked the enemy standing diagonally on (1,1),
\* which a unit with the Manhattan test and range 1 cannot reach
C13_Witness ==
  /\ ticked
  /\ Len(lastTick.snapshot) = 2
  /\ LET u == lastTick.snapshot[1]
         t == lastTick.snapshot[2]
     IN /\ u.type = "melee" /\ u.range = 1
        /\ Pos(u) = <<0, 0>> /\ Pos(t) = <<1, 1>>
        /\ attacksBy(lastTick.attacks, u.id) # {}
        /\ ~canAttack([u EXCEPT !.type = "archer"], t)

\* the units of a tick's snapshot that take their turn holding a lock on a unit
\* that lives through the whole per-unit loop
lockHolders(t) ==
  {k \in DOMAIN t.snapshot :
     /\ t.snapshot[k].lockedTargetId # NoId
     /\ t.snapshot[k].anim = 0
     /\ t.afterLoop[k].hp > 0
     /\ \E j \in DOMAIN t.afterLoop :
           t.afterLoop[j].id = t.snapshot[k].lockedTargetId /\ t.afterLoop[j].hp > 0}

\* C14: a lock is only ever held on a unit the holder has attacked in this
\* battle, and in every tick in which the locked unit T stays alive the holder's
\* target is T: the lock is kept, the holder attacks T and nobody else when T is
\* in range and the cooldown is over, and otherwise (out of range, not
\* recovering) it intends to move with its candidate cells rated by their
\* distance to T
C14_LockPersists ==
  /\ \A i \in DOMAIN units :
        units[i].lockedTargetId # NoId =>
          \E h \in DOMAIN history : \E p \in DOMAIN history[h].attacks :
             /\ history[h].attacks[p].attackerId = units[i].id
             /\ history[h].attacks[p].targetId = units[i].lockedTargetId
  /\ ticked =>
       \A k \in lockHolders(lastTick) :
          LET u == lastTick.snapshot[k]
              T == unitOf(lastTick.snapshot, u.lockedTargetId)
              by == attacksBy(lastTick.attacks, u.id)
          IN /\ lastTick.afterLoop[k].lockedTargetId = T.id
             /\ \A a \in by : lastTick.attacks[a].targetId = T.id
             /\ (canAttack(u, T) /\ cooldownOver(u)) => by # {}
             /\ (~canAttack(u, T) /\ ~inCooldown(u)) =>
                   /\ u.id \in Range(lastTick.moverIds)
                   /\ u.id \in DOMAIN lastTick.edgesByUnit
                   /\ \A e \in DOMAIN lastTick.edgesByUnit[u.id] :
                         lastTick.edgesByUnit[u.id][e].delta
                           = manhattan(Pos(u), Pos(T))
                             - manhattan(toCell(lastTick.edgesByUnit[u.id][e]), Pos(T))

\* a unit holding a lock on a living unit attacks it in a tick in which a fresh
\* selection would have picked another enemy
C14_Witness ==
  /\ ticked
  /\ \E k \in lockHolders(lastTick) :
        LET u == lastTick.snapshot[k]
        IN /\ selectTarget([u EXCEPT !.lockedTargetId = NoId], lastTick.snapshot)
                # u.lockedTargetId
           /\ \E a \in attacksBy(lastTick.attacks, u.id) :
                 lastTick.attacks[a].targetId = u.lockedTargetId

\* C15: once a tick has removed its dead, no unit of the roster holds a lock on a
\* unit that is no longer in the roster
C15_NoStaleLock ==
  \A i \in DOMAIN units :
     units[i].lockedTargetId # NoId =>
       \E j \in DOMAIN units : units[j].id = units[i].lockedTargetId

\* C16: the unit list of every tick record is the roster as the tick leaves it:
\* the last record lists the survivors in roster order with their team and
\* health, and in every record each unit that was granted a move in that tick
\* is listed on the cell it moved to
C16_RecordIsRoster ==
  /\ Len(history) > 0 =>
       LET h == history[Len(history)]
       IN /\ Len(h.units) = Len(units)
          /\ \A k \in DOMAIN h.units :
                /\ h.units[k].id = units[k].id
                /\ h.units[k].team = units[k].team
                /\ h.units[k].hp = units[k].hp
  /\ \A i \in DOMAIN history :
       \A m \in DOMAIN history[i].moves : \A k \in DOMAIN history[i].units :
          history[i].units[k].id = history[i].moves[m].unitId
            => <<history[i].units[k].x, history[i].units[k].y>> = toCell(history[i].moves[m])

\* C17: a tick, which runs only while the battle is running, appends exactly one
\* record to the history, numbered with the count of records appended before it
\* in this battle, and leaves the earlier records as they are; no other step
\* appends a record or alters one (starting a battle and returning to placement
\* empty the history)
C17_OneRecordPerTick ==
  [][ /\ tickCount' = tickCount + 1 =>
          /\ running
          /\ Len(history') = Len(history) + 1
          /\ SubSeq(history', 1, Len(history)) = history
          /\ history'[Len(history')].tick = Len(history)
      /\ tickCount' # tickCount + 1 => (history' = history \/ history' = <<>>)
    ]_vars

\* a round has ended, so that ticks are no longer taken, with its records
\* numbered 0, 1, 2, ... in the history
C17_Witness ==
  /\ ~running
  /\ Len(history) >= 3
  /\ \A i \in DOMAIN history : history[i].tick = i - 1

\* unit uid is granted the move from cell a to cell b in history record h
movedIn(h, uid, a, b) ==
  \E m \in DOMAIN h.moves :
     h.moves[m].unitId = uid /\ fromCell(h.moves[m]) = a /\ toCell(h.moves[m]) = b

\* unit uid hits unit tid for dmg in history record h
hitIn(h, uid, tid, dmg) ==
  \E a \in DOMAIN h.attacks :
     /\ h.attacks[a].attackerId = uid
     /\ h.attacks[a].targetId = tid
     /\ h.attacks[a].damage = dmg

C19_MatchEndsAtTwoWins ==
  (teamAWins >= (MaxRounds + 1) \div 2 \/ teamBWins >= (MaxRounds + 1) \div 2) =>
     /\ round <= teamAWins + teamBWins
     /\ ~running

\* C20: when a round has ended and no team has yet won two rounds, the game is
\* in the placement phase
C20_BackToPlacement ==
  (/\ ~running
   /\ Len(history) > 0
   /\ roundOver(units)
   /\ teamAWins < (MaxRounds + 1) \div 2
   /\ teamBWins < (MaxRounds + 1) \div 2) => phase = "placement"

\* C21: a round ends exactly with a tick that leaves one team without units: a
\* tick stops the battle if and only if a team is empty after it, the team that
\* still has units then gains exactly one win and the other none, the two teams
\* are never both empty, and a tick that does not end the round changes no win
\* count
C21_RoundEnd ==
  [][ tickCount' = tickCount + 1 =>
        /\ running' = ~roundOver(units')
        /\ roundOver(units') =>
              /\ Len(units') > 0
              /\ teamAWins' = teamAWins + (IF Len(teamOf(units', "A")) > 0 THEN 1 ELSE 0)
              /\ teamBWins' = teamBWins + (IF Len(teamOf(units', "B")) > 0 THEN 1 ELSE 0)
        /\ ~roundOver(units') => (teamAWins' = teamAWins /\ teamBWins' = teamBWins)
    ]_vars

\* a round that team A has just won: team B is gone, team A is credited
C21_Witness ==
  /\ ~running
  /\ Len(history) > 0
  /\ Len(teamOf(units, "A")) > 0
  /\ Len(teamOf(units, "B")) = 0
  /\ teamAWins = 1
  /\ teamBWins = 0

\* C22: enterPlacement() and resetBO3() leave the game stopped with the roster,
\* the history, the denied streaks and the last positions empty, and from then
\* until startBattle() nothing but placing a unit changes any of them: every
\* step that ends in the placement phase ends with running false, no tick
\* counted, an empty history and empty fairness maps; it empties the roster when
\* it leaves a battle, and within placement it leaves the roster alone, empties
\* it, or appends the one unit placed
C22_ResetIsClean ==
  [][ phase' = "placement" =>
        /\ ~running'
        /\ tickCount' = 0
        /\ history' = <<>>
        /\ deniedStreak' = EmptyMap
        /\ lastPosition' = EmptyMap
        /\ phase = "battle" => units' = <<>>
        /\ phase = "placement" =>
              \/ units' = units
              \/ units' = <<>>
              \/ /\ Len(units') = Len(units) + 1
                 /\ SubSeq(units', 1, Len(units)) = units
                 /\ units'[Len(units')].team = "A"
    ]_vars

\* the placement phase entered from a battle in which a tick had granted moves
\* and recorded positions: nothing of the battle is left but the module-level
\* list of that tick's moves
C22_Witness ==
  /\ phase = "placement"
  /\ ~running
  /\ units = <<>>
  /\ history = <<>>
  /\ lastPosition = EmptyMap
  /\ deniedStreak = EmptyMap
  /\ Len(pendingMoves) > 0

\* C23: in the state a battle's first tick starts from (running, no tick yet
\* counted) the history is empty, the last-position map is empty and no unit of
\* the roster has a denied streak other than zero
C23_FreshFairness ==
  (running /\ tickCount = 0) =>
     /\ history = <<>>
     /\ lastPosition = EmptyMap
     /\ \A i \in DOMAIN units : getOr0(deniedStreak, units[i].id) = 0

\* C24: every unit of the roster stands on a cell of the board, 0 <= x < 5 and
\* 0 <= y < 8, whether placed by placeUnit(), drawn by startBattle() or moved
C24_OnBoard == \A i \in DOMAIN units : inBounds(units[i].x, units[i].y)

\* C25: every call placeUnit(role, x, y) returns true or false; it returns false
\* and leaves the roster and the bench as they are when the phase is not
\* placement, when row y lies outside team A's rows 0..PlacementMaxRow, when
\* the cell is occupied, and when no unplaced bench item of the role is left;
\* when it returns true it has appended exactly one team A unit on (x, y) and
\* marked exactly one bench item placed
C25_PlaceContract ==
  [][ \A role \in Roles, x \in PlaceXs, y \in PlaceYs :
        PlaceCall(role, x, y) =>
          /\ placed' \in {"true", "false"}
          /\ (\/ phase # "placement"
              \/ y < 0 \/ y > PlacementMaxRow
              \/ \E i \in DOMAIN units : Pos(units[i]) = <<x, y>>
              \/ ~(role = "Soldier" /\ \E b \in DOMAIN bench : ~bench[b]))
               => placed' = "false"
          /\ placed' = "false" => (units' = units /\ bench' = bench)
          /\ placed' = "true" =>
                /\ Len(units') = Len(units) + 1
                /\ SubSeq(units', 1, Len(units)) = units
                /\ units'[Len(units')].team = "A"
                /\ Pos(units'[Len(units')]) = <<x, y>>
                /\ Cardinality({b \in DOMAIN bench : bench'[b] # bench[b]}) = 1
                /\ \A b \in DOMAIN bench : bench[b] => bench'[b]
    ]_vars

\* C26: during placement units go to rows 0 and 1 only: every call
\* placeUnit(role, x, y) with y > 1 returns false
C26_RowsZeroAndOne ==
  [][ \A role \in Roles, x \in PlaceXs, y \in PlaceYs :
        (PlaceCall(role, x, y) /\ y > 1) => placed' = "false" ]_vars

\* the cells seen and the cells one 4-adjacent step away from them, over grid
\* cells that are unoccupied or the goal
grow(seen, goal, occupied, width, height) ==
  seen \cup {n \in cellsOf(width, height) : (n \notin occupied \/ n = goal) /\ \E c \in seen : manhattan(c, n) = 1}

\* the cells a walk of such steps reaches from the cells seen
RECURSIVE flood(_, _, _, _, _)
floodStep(seen, next, goal, occupied, width, height) ==
  IF next = seen THEN seen ELSE flood(next, goal, occupied, width, height)

flood(seen, goal, occupied, width, height) ==
  floodStep(seen, grow(seen, goal, occupied, width, height), goal, occupied, width, height)

pathExists(q) == q.goal \in flood({q.start}, q.goal, q.occupied, q.width, q.height)

\* C27: a non-empty path returned by astar() starts at start, ends at goal,
\* moves by 4-adjacent steps, stays on the grid and crosses no occupied cell
\* other than the goal (and start); an occupied goal does not change the path
C27_PathShape ==
  LET p == found.path
  IN /\ p # <<>> =>
          /\ p[1] = found.start
          /\ p[Len(p)] = found.goal
          /\ \A i \in 1 .. (Len(p) - 1) : manhattan(p[i], p[i + 1]) = 1
          /\ \A i \in DOMAIN p : p[i] \in cellsOf(found.width, found.height)
          /\ \A i \in DOMAIN p : p[i] \in found.occupied => p[i] \in {found.goal, found.start}
     /\ (found # NoSearch /\ found.goal \in found.occupied) =>
          p = astar(found.start, found.goal, found.occupied \ {found.goal}, found.width, found.height)

\* a path of five cells or more that bends round an occupied cell
C27_Witness ==
  /\ Len(found.path) >= 5
  /\ Len(found.path) > manhattan(found.start, found.goal) + 1
  /\ \E c \in found.occupied : manhattan(c, found.start) = 1 /\ manhattan(c, found.goal) = 1

cornerCall ==
  /\ found # NoSearch
  /\ found.start = <<0, 0>> /\ found.goal = <<2, 0>>
  /\ found.occupied = {<<1, 0>>, <<0, 1>>}
  /\ found.width = BOARD_WIDTH /\ found.height = BOARD_HEIGHT

C30_Rotation ==
  /\ [](/\ rotateFacing("N") = "E" /\ rotateFacing("E") = "S"
        /\ rotateFacing("S") = "W" /\ rotateFacing("W") = "N"
        /\ \A f \in {"N", "E", "S", "W"} : rotateFacing(rotateFacing(rotateFacing(rotateFacing(f)))) = f)
  /\ [][ /\ \A unitId \in RotateIds :
              RotateUnit(unitId) =>
                /\ Len(units') = Len(units)
                /\ \A i \in DOMAIN units :
                      /\ [units'[i] EXCEPT !.facing = units[i].facing] = units[i]
                      /\ (units[i].id = unitId /\ phase = "placement") =>
                            units'[i].facing = (CASE units[i].facing = "N" -> "E"
                                                  [] units[i].facing = "E" -> "S"
                                                  [] units[i].facing = "S" -> "W"
                                                  [] units[i].facing = "W" -> "N")
                      /\ (units[i].id # unitId \/ phase # "placement") => units'[i] = units[i]
        /\ phase # "placement" =>
              \A i \in DOMAIN units, j \in DOMAIN units' :
                units[i].id = units'[j].id => units'[j].facing = units[i].facing
      ]_vars

\* a battle with a team A unit turned three times during placement
C30_Witness ==
  /\ phase = "battle"
  /\ tickCount > 0
  /\ \E i \in DOMAIN units : units[i].team = "A" /\ units[i].facing = "W"

C32_EdgeOrder ==
  [][ lastTick'.tick # lastTick.tick =>
        \A uid \in DOMAIN lastTick'.edgesByUnit :
          LET es == lastTick'.edgesByUnit[uid]
              us == lastTick'.afterLoop
              u == us[IndexOfId(us, uid)]
              t == us[IndexOfId(us, resolverTarget(u, us))]
              rank(e) ==
                ((((IF canAttack([u EXCEPT !.x = e.toX, !.y = e.toY], t) THEN 0 ELSE 1) * 2
                   + startOccupied(lastTick'.startOcc, e)) * 2
                  + (IF uid \in DOMAIN lastPosition /\ lastPosition[uid] = <<e.toX, e.toY>> THEN 1 ELSE 0)) * 3
                 + (1 - e.delta)) * 2
                + (1 - e.forward)
          IN \A i, j \in DOMAIN es : i < j => rank(es[i]) <= rank(es[j])
    ]_vars

\* the number of cells of a shortest walk of 4-adjacent steps over the board,
\* the n-th cell being one of the frontier and the cells seen not entered again,
\* that ends on a goal cell; -1 when there is none
RECURSIVE routeLen(_, _, _, _)
routeLen(frontier, seen, n, goals) ==
  IF frontier = {} THEN -1
  ELSE IF frontier \cap goals # {} THEN n
  ELSE routeLen({c \in Cells \ (seen \cup frontier) : \E f \in frontier : manhattan(c, f) = 1}, seen \cup frontier, n + 1, goals)

\* C34: bfsNextStep and bfsTowardReducing return nothing or a cell that is an
\* in-bounds 4-neighbour of the unit and unoccupied at the start of the tick;
\* the cell is the first step of a shortest route, free to cross occupied cells
\* after that step, to a cell from which the unit can attack the target
\* (bfsNextStep) or that is strictly closer to the target (bfsTowardReducing);
\* they return nothing only when no unoccupied first step leads to such a cell
C34_FirstStep ==
  probe.fn \in {"attack", "reduce"} =>
    LET start == Pos(probe.unit)
        goals == {c \in Cells \ {start} : bfsGoal(probe.fn, probe.unit, probe.target, c)}
        free == {n \in Cells : manhattan(n, start) = 1 /\ n \notin probe.occupied}
        len(f) == routeLen({f}, {start}, 1, goals)
    IN /\ probe.result = NoStep <=> \A f \in free : len(f) = -1
       /\ probe.result # NoStep =>
            /\ probe.result \in free
            /\ len(probe.result) # -1
            /\ \A f \in free : len(f) = -1 \/ len(probe.result) <= len(f)

\* bfsNextStep steps aside: the neighbour on the straight way to the target is
\* occupied and the route returned is longer than the one through it
C34_Witness ==
  /\ probe.fn = "attack"
  /\ probe.result # NoStep
  /\ LET start == Pos(probe.unit)
         goals == {c \in Cells \ {start} : bfsGoal(probe.fn, probe.unit, probe.target, c)}
     IN \E g \in probe.occupied :
          /\ manhattan(g, start) = 1
          /\ routeLen({g}, {start}, 1, goals) # -1
          /\ routeLen({g}, {start}, 1, goals) < routeLen({probe.result}, {start}, 1, goals)

\* C33: every augmenting search of a tick ends: in the search of one root no
\* unit is expanded twice and no destination cell is examined twice, so a
\* search makes at most as many steps as there are units and board cells, and
\* the tick runs one completed search per ordered mover
C33_SearchesEnd ==
  /\ Len(lastTick.searches) = Len(lastTick.moversOrdered)
  /\ \A k \in DOMAIN lastTick.searches :
        LET log == lastTick.searches[k]
        IN /\ \A i, j \in DOMAIN log : i # j => log[i] # log[j]
           /\ log[1] = <<"unit", lastTick.moversOrdered[k]>>
           /\ Len(log) <= Len(lastTick.snapshot) + BOARD_WIDTH * BOARD_HEIGHT

\* a search that expanded three units, the root and two it asked to move on
C33_Witness ==
  \E k \in DOMAIN lastTick.searches :
    Cardinality({i \in DOMAIN lastTick.searches[k] : lastTick.searches[k][i][1] = "unit"}) >= 3

\* C35: the decisions of the per-unit loop do not depend on the order the units
\* are taken in: run from the same start-of-tick roster with any two units of
\* the snapshot exchanged in the loop order, the loop makes the same attacks,
\* records the same movers and leaves the same units alive
C35_OrderFree ==
  ticked =>
    LET snapshot == lastTick.snapshot
        start == [units |-> snapshot, pendingMoves |-> <<>>, pendingAttacks |-> <<>>,
                  lastPosition |-> EmptyMap, idCounter |-> 0]
        hits(st) == {<<st.pendingAttacks[k].attackerId, st.pendingAttacks[k].targetId>> :
                       k \in DOMAIN st.pendingAttacks}
        movers(st) == {st.pendingMoves[k].unitId : k \in DOMAIN st.pendingMoves}
        living(st) == {st.units[k].id : k \in {j \in DOMAIN st.units : st.units[j].hp > 0}}
        asRun == UnitLoop(snapshot, 1, start)
    IN \A a, b \in DOMAIN snapshot :
         a < b =>
           LET other == UnitLoop([snapshot EXCEPT ![a] = snapshot[b], ![b] = snapshot[a]],
                                 1, start)
           IN /\ hits(other) = hits(asRun)
              /\ movers(other) = movers(asRun)
              /\ living(other) = living(asRun)

\* C36: when a tick runs while a unit is still animating a move granted
\* earlier, that unit neither attacks nor asks to move in the tick, no unit is
\* granted the cell it is moving into, and once every pending move has landed
\* no two units stand on the same cell
C36_PendingMoveSafe ==
  LET landing(u) == IF u.anim # 0 THEN <<u.animToX, u.animToY>> ELSE Pos(u)
  IN /\ ticked =>
          \A k \in DOMAIN lastTick.snapshot :
            lastTick.snapshot[k].anim # 0 =>
              /\ \A a \in DOMAIN lastTick.attacks :
                    lastTick.attacks[a].attackerId # lastTick.snapshot[k].id
              /\ lastTick.snapshot[k].id \notin Range(lastTick.moverIds)
              /\ \A m \in DOMAIN lastTick.allowed :
                    toCell(lastTick.allowed[m]) # landing(lastTick.snapshot[k])
     /\ \A i, j \in DOMAIN units : i # j => landing(units[i]) # landing(units[j])

\* C37: every move granted in a tick is one orthogonal step: it starts on the
\* cell its unit had at the start of the tick and ends on a cell of the board at
\* Manhattan distance 1 from it; no unit is granted two moves, and only units
\* that asked to move in the tick are granted one
C37_SingleStep ==
  ticked =>
    /\ \A m \in DOMAIN lastTick.allowed :
          LET mv == lastTick.allowed[m]
          IN /\ inBounds(mv.toX, mv.toY)
             /\ \E k \in DOMAIN lastTick.snapshot :
                   /\ lastTick.snapshot[k].id = mv.unitId
                   /\ Pos(lastTick.snapshot[k]) = fromCell(mv)
             /\ manhattan(fromCell(mv), toCell(mv)) = 1
             /\ \E k \in DOMAIN lastTick.intents : lastTick.intents[k].unitId = mv.unitId
    /\ \A m, n \in DOMAIN lastTick.allowed :
          m # n => lastTick.allowed[m].unitId # lastTick.allowed[n].unitId

\* a tick in which two units were granted a step while another unit of the
\* snapshot did not ask to move
C37_Witness ==
  /\ ticked
  /\ Len(lastTick.allowed) >= 2
  /\ \E uid \in snapshotIds(lastTick) : uid \notin Range(lastTick.moverIds)

\* C38: no granted move takes its unit farther from its target: the Manhattan
\* distance from the destination to the mover's current target is not larger
\* than the distance from the cell the mover started the tick on
C38_NeverFarther ==
  ticked =>
    \A m \in DOMAIN lastTick.allowed :
      LET mv == lastTick.allowed[m]
          u == unitOf(lastTick.afterLoop, mv.unitId)
          tid == resolverTarget(u, lastTick.afterLoop)
      IN tid # NoId =>
           manhattan(toCell(mv), Pos(unitOf(lastTick.afterLoop, tid)))
             <= manhattan(fromCell(mv), Pos(unitOf(lastTick.afterLoop, tid)))

\* C39: whatever placeUnit, startBattle, tick, enterPlacement and resetBO3 do,
\* the round number stays between 1 and maxRounds and the two teams' wins
\* together never exceed maxRounds
C39_RoundsAndWins ==
  /\ round >= 1
  /\ round <= MaxRounds
  /\ teamAWins + teamBWins <= MaxRounds

\* C40: a battle is started only when every bench unit has been placed, and it
\* starts with as many team B units as team A units, at most three per team,
\* team A on rows 0-3 and team B on rows 4-7, every unit on a cell of the
\* board and no two on the same cell
C40_StartContract ==
  [][(~running /\ running') =>
       /\ placementComplete
       /\ Len(teamOf(units', "A")) = Len(teamOf(units', "B"))
       /\ Len(teamOf(units', "A")) <= BenchSize
       /\ \A i \in DOMAIN units' :
             /\ inBounds(units'[i].x, units'[i].y)
             /\ units'[i].team = "A" => units'[i].y < BOARD_HEIGHT - ZoneBRows
             /\ units'[i].team = "B" => units'[i].y >= BOARD_HEIGHT - ZoneBRows
             /\ \A j \in DOMAIN units' : i # j => Pos(units'[i]) # Pos(units'[j])]_vars

====
